---- MODULE Spec2Model ----
(***************************************************************************)
(* Model of the Hevy MCP server's tool pipeline:                          *)
(*   validators (lib/transforms.ts), transformers (lib/schemas.ts),        *)
(*   error normalizer (lib/errors.ts), upstream client (lib/client.ts)     *)
(*   and the tool handlers of the multi-user agent (mcp-agent.ts).         *)
(*                                                                         *)
(* JavaScript values are tagged records [t |-> type, v |-> payload].       *)
(* Numbers are fixed-point with one decimal digit: v counts tenths, so     *)
(* 7.5 is v = 75 and 10 is v = 100.  Objects are functions from their own  *)
(* keys to values; a key that is not in the domain reads as undefined.     *)
(* The headline glyph of the error texts is written "(x)".                 *)
(***************************************************************************)
EXTENDS Integers, Sequences, FiniteSets, TLC

VARIABLES pc, call, ran, requests, caught, result, escaped,
          kv, nonce, flight, reply, agent, hist

\* the state of one agent serving tool invocations
toolVars == <<pc, call, ran, requests, caught, result, escaped>>

\* the state of the OAuth front end: the OAUTH_KV namespace, the numbers of
\* random values drawn, the requests between two awaits, the last response,
\* the agent instance behind /mcp, and the history the properties refer to
authVars == <<kv, nonce, flight, reply, agent, hist>>

vars == <<toolVars, authVars>>

----------------------------------------------------------------------------
(* JavaScript values *)

Undefined == [t |-> "undefined"]

Null == [t |-> "null"]

Num(n) == [t |-> "number", v |-> n * 10]

Tenths(n) == [t |-> "number", v |-> n]

Str(s) == [t |-> "string", v |-> s]

Bool(b) == [t |-> "boolean", v |-> b]

Arr(s) == [t |-> "array", v |-> s]

Obj(f) == [t |-> "object", v |-> f]

IsNullish(x) == x.t \in {"undefined", "null"}

\* ToBoolean
Truthy(x) ==
    CASE x.t \in {"undefined", "null"} -> FALSE
      [] x.t = "number" -> x.v # 0
      [] x.t = "string" -> x.v # ""
      [] x.t = "boolean" -> x.v
      [] OTHER -> TRUE

\* o.k (undefined for a key the object does not own, and for a primitive;
\* reading a property of null or undefined throws, see ReadThrows)
Get(o, k) == IF o.t = "object" /\ k \in DOMAIN o.v THEN o.v[k] ELSE Undefined

\* reading any property of o throws a TypeError
ReadThrows(o) == o.t \in {"undefined", "null"}

\* 'k' in o
HasKey(o, k) == o.t = "object" /\ k \in DOMAIN o.v

\* template-literal rendering of a number
NumStr(x) ==
    LET a == IF x.v < 0 THEN 0 - x.v ELSE x.v
    IN  (IF x.v < 0 THEN "-" ELSE "")
        \o ToString(a \div 10)
        \o (IF a % 10 = 0 THEN "" ELSE "." \o ToString(a % 10))

----------------------------------------------------------------------------
(* Strings *)

Char(s, i) == SubSeq(s, i, i)

\* String.prototype.includes
Includes(s, k) ==
    \E i \in 1..(Len(s) - Len(k) + 1) : SubSeq(s, i, i + Len(k) - 1) = k

UpperLetters ==
    <<"A", "B", "C", "D", "E", "F", "G", "H", "I", "J", "K", "L", "M",
      "N", "O", "P", "Q", "R", "S", "T", "U", "V", "W", "X", "Y", "Z">>

LowerLetters ==
    <<"a", "b", "c", "d", "e", "f", "g", "h", "i", "j", "k", "l", "m",
      "n", "o", "p", "q", "r", "s", "t", "u", "v", "w", "x", "y", "z">>

LowerChar(c) ==
    IF \E i \in 1..26 : UpperLetters[i] = c
    THEN LowerLetters[CHOOSE i \in 1..26 : UpperLetters[i] = c]
    ELSE c

RECURSIVE ToLowerCase(_)
\* String.prototype.toLowerCase
ToLowerCase(s) ==
    IF Len(s) = 0 THEN ""
    ELSE IF Len(s) = 1 THEN LowerChar(s)
    ELSE ToLowerCase(SubSeq(s, 1, Len(s) \div 2))
         \o ToLowerCase(SubSeq(s, Len(s) \div 2 + 1, Len(s)))

Whitespace == {" ", "\t", "\n", "\r"}

RECURSIVE TrimStart(_)
TrimStart(s) ==
    IF Len(s) > 0 /\ Char(s, 1) \in Whitespace
    THEN TrimStart(SubSeq(s, 2, Len(s)))
    ELSE s

RECURSIVE TrimEnd(_)
TrimEnd(s) ==
    IF Len(s) > 0 /\ Char(s, Len(s)) \in Whitespace
    THEN TrimEnd(SubSeq(s, 1, Len(s) - 1))
    ELSE s

\* String.prototype.trim
Trim(s) == TrimEnd(TrimStart(s))

Digits == {"0", "1", "2", "3", "4", "5", "6", "7", "8", "9"}

DigitValue(c) ==
    CASE c = "0" -> 0 [] c = "1" -> 1 [] c = "2" -> 2 [] c = "3" -> 3
      [] c = "4" -> 4 [] c = "5" -> 5 [] c = "6" -> 6 [] c = "7" -> 7
      [] c = "8" -> 8 [] c = "9" -> 9

\* s[i..j] consists of digits only (and lies inside s)
AllDigits(s, i, j) == j <= Len(s) /\ \A k \in i..j : Char(s, k) \in Digits

RECURSIVE DigitsValue(_, _, _)
\* the decimal number written in s[i..j]
DigitsValue(s, i, j) ==
    IF j < i THEN 0
    ELSE DigitsValue(s, i, j - 1) * 10 + DigitValue(Char(s, j))

----------------------------------------------------------------------------
(* Dates: the pattern of validateISO8601Date and the engine's Date parser *)

\* the character at position i, "" past the end
At(s, i) == IF i >= 1 /\ i <= Len(s) THEN Char(s, i) ELSE ""

\* (Z|[+-]\d{2}:\d{2})?$ at position p
ZoneOrEnd(s, p) ==
    \/ Len(s) = p - 1
    \/ At(s, p) = "Z" /\ Len(s) = p
    \/ /\ At(s, p) \in {"+", "-"}
       /\ AllDigits(s, p + 1, p + 2)
       /\ At(s, p + 3) = ":"
       /\ AllDigits(s, p + 4, p + 5)
       /\ Len(s) = p + 5

\* /^\d{4}-\d{2}-\d{2}(T\d{2}:\d{2}:\d{2}(\.\d{1,3})?(Z|[+-]\d{2}:\d{2})?)?$/
iso8601Pattern(s) ==
    /\ AllDigits(s, 1, 4) /\ At(s, 5) = "-"
    /\ AllDigits(s, 6, 7) /\ At(s, 8) = "-"
    /\ AllDigits(s, 9, 10)
    /\ \/ Len(s) = 10
       \/ /\ At(s, 11) = "T"
          /\ AllDigits(s, 12, 13) /\ At(s, 14) = ":"
          /\ AllDigits(s, 15, 16) /\ At(s, 17) = ":"
          /\ AllDigits(s, 18, 19)
          /\ \/ ZoneOrEnd(s, 20)
             \/ \E k \in 1..3 :
                   /\ At(s, 20) = "."
                   /\ AllDigits(s, 21, 20 + k)
                   /\ ZoneOrEnd(s, 21 + k)

\* days from 1970-01-01 to the first of month mo of year y, plus d - 1
\* (MakeDay: a day number past the end of the month rolls into the next)
MakeDay(y, mo, d) ==
    LET yy  == IF mo <= 2 THEN y - 1 ELSE y
        era == yy \div 400
        yoe == yy - era * 400
        mp  == IF mo > 2 THEN mo - 3 ELSE mo + 9
        doy == (153 * mp + 2) \div 5
        doe == yoe * 365 + yoe \div 4 - yoe \div 100 + doy
    IN  era * 146097 + doe - 719468 + (d - 1)

MsPerDay == 86400000

\* the number of fraction digits of a string that matches the pattern
FractionDigits(s) ==
    IF At(s, 20) # "." THEN 0
    ELSE IF AllDigits(s, 21, 23) THEN 3
    ELSE IF AllDigits(s, 21, 22) THEN 2
    ELSE 1

\* new Date(s) for a string s that matches iso8601Pattern, as the V8 engine
\* of the Workers runtime parses it: [valid, day, ms], the time value being
\* day * MsPerDay + ms.  Month 1..12 and day 1..31 are accepted for every
\* month; a date-time without a zone is local time, which is UTC there.
DateParse(s) ==
    LET y    == DigitsValue(s, 1, 4)
        mo   == DigitsValue(s, 6, 7)
        d    == DigitsValue(s, 9, 10)
        time == Len(s) > 10
        h    == IF time THEN DigitsValue(s, 12, 13) ELSE 0
        mi   == IF time THEN DigitsValue(s, 15, 16) ELSE 0
        se   == IF time THEN DigitsValue(s, 18, 19) ELSE 0
        k    == IF time THEN FractionDigits(s) ELSE 0
        frac == IF k = 0 THEN 0 ELSE DigitsValue(s, 21, 20 + k)
        milli == CASE k = 1 -> frac * 100 [] k = 2 -> frac * 10 [] OTHER -> frac
        zp   == IF k = 0 THEN 20 ELSE 21 + k
        sign == IF At(s, zp) = "-" THEN 0 - 1 ELSE 1
        hasOffset == time /\ At(s, zp) \in {"+", "-"}
        zh   == IF hasOffset THEN DigitsValue(s, zp + 1, zp + 2) ELSE 0
        zm   == IF hasOffset THEN DigitsValue(s, zp + 4, zp + 5) ELSE 0
        total == h * 3600000 + mi * 60000 + se * 1000 + milli
                 - sign * (zh * 60 + zm) * 60000
        ok   == /\ mo \in 1..12 /\ d \in 1..31
                /\ h <= 24 /\ mi <= 59 /\ se <= 59
                /\ (h = 24 => mi = 0 /\ se = 0 /\ milli = 0)
                /\ zh <= 23 /\ zm <= 59
    IN  IF ok
        THEN [valid |-> TRUE,
              day |-> MakeDay(y, mo, d) + (total \div MsPerDay),
              ms |-> total % MsPerDay]
        ELSE [valid |-> FALSE, day |-> 0, ms |-> 0]

\* a <= b on Date objects (compares the time values; NaN compares false)
DateLE(a, b) ==
    /\ a.valid /\ b.valid
    /\ \/ a.day < b.day
       \/ a.day = b.day /\ a.ms <= b.ms

----------------------------------------------------------------------------
(* Completion of a call: it returns (a value) or throws (an error) *)

Ok == [threw |-> FALSE, value |-> Undefined]

Return(x) == [threw |-> FALSE, value |-> x]

Throw(e) == [threw |-> TRUE, error |-> e]

\* an Error instance of the named class
ErrorOf(class, message) == [t |-> "error", class |-> class, message |-> message]

ValidationError(message) == ErrorOf("ValidationError", message)

HevyApiError(message, status, data) ==
    [t |-> "error", class |-> "HevyApiError", message |-> message,
     status |-> status, data |-> data]

ZodError(issues) ==
    [t |-> "error", class |-> "ZodError", message |-> "zod", errors |-> issues]

\* the prototype chain of the error classes
Superclasses(class) == {class, "Error"}

\* x instanceof C
InstanceOf(x, C) == x.t = "error" /\ C \in Superclasses(x.class)

----------------------------------------------------------------------------
(* Validators (lib/transforms.ts) *)

\* validatePagination with the page size checked before the page
validatePagination_SizeFirst(page, pageSize, maxPageSize) ==
    IF pageSize.v < Num(1).v
    THEN Throw(ValidationError(
             "Page size must be at least 1, got " \o NumStr(pageSize)))
    ELSE IF pageSize.v > maxPageSize.v
    THEN Throw(ValidationError(
             "Page size cannot exceed " \o NumStr(maxPageSize)
             \o ", got " \o NumStr(pageSize)))
    ELSE IF page.v < Num(1).v
    THEN Throw(ValidationError("Page must be 1 or greater, got " \o NumStr(page)))
    ELSE Ok

validatePagination(page, pageSize, maxPageSize) ==
    IF page.v < Num(1).v
    THEN Throw(ValidationError("Page must be 1 or greater, got " \o NumStr(page)))
    ELSE IF pageSize.v < Num(1).v
    THEN Throw(ValidationError(
             "Page size must be at least 1, got " \o NumStr(pageSize)))
    ELSE IF pageSize.v > maxPageSize.v
    THEN Throw(ValidationError(
             "Page size cannot exceed " \o NumStr(maxPageSize)
             \o ", got " \o NumStr(pageSize)))
    ELSE Ok

validateISO8601Date(dateString, fieldName) ==
    IF ~iso8601Pattern(dateString.v)
    THEN Throw(ValidationError(
             fieldName
             \o " must be in ISO 8601 format (e.g., 2024-01-15T10:00:00Z), got "
             \o dateString.v))
    ELSE IF ~DateParse(dateString.v).valid
    THEN Throw(ValidationError(
             fieldName \o " is not a valid date: " \o dateString.v))
    ELSE Ok

validRPEValues == {60, 70, 75, 80, 85, 90, 95, 100}

validRPEValuesJoined == "6, 7, 7.5, 8, 8.5, 9, 9.5, 10"

\* validateRPE that accepts every half step from 6 to 10
validateRPE_HalfSteps(rpe) ==
    IF ~(rpe.t = "number" /\ rpe.v \in {60 + 5 * k : k \in 0..8})
    THEN Throw(ValidationError(
             "RPE must be one of: " \o validRPEValuesJoined
             \o ". Got " \o NumStr(rpe)))
    ELSE Ok

validateRPE(rpe) ==
    IF ~(rpe.t = "number" /\ rpe.v \in validRPEValues)
    THEN Throw(ValidationError(
             "RPE must be one of: " \o validRPEValuesJoined
             \o ". Got " \o NumStr(rpe)))
    ELSE Ok

validSetTypes == {"warmup", "normal", "failure", "dropset"}

validSetTypesJoined == "warmup, normal, failure, dropset"

numericFields ==
    <<"weight_kg", "reps", "distance_meters", "duration_seconds",
      "custom_metric">>

\* the numeric fields of a set that are present and negative, by position
NegativeFields(set) ==
    {k \in 1..Len(numericFields) :
        /\ ~IsNullish(Get(set, numericFields[k]))
        /\ Get(set, numericFields[k]).v < 0}

Min(S) == CHOOSE x \in S : \A y \in S : x <= y

\* "Exercise ${index}, Set ${setIndex}: "
SetPrefix(index, setIndex) ==
    "Exercise " \o ToString(index) \o ", Set " \o ToString(setIndex) \o ": "

\* the type checks of one set (lines 146-158 and 244-256)
SetTypeCheck(index, setIndex, set) ==
    IF ~Truthy(Get(set, "type"))
    THEN Throw(ValidationError(SetPrefix(index, setIndex) \o "type is required"))
    ELSE IF Get(set, "type").v \notin validSetTypes
    THEN Throw(ValidationError(
             SetPrefix(index, setIndex) \o "Invalid set type \""
             \o Get(set, "type").v \o "\". Must be one of: "
             \o validSetTypesJoined))
    ELSE Ok

\* the loop over numericFields of one set
SetNumericCheck(index, setIndex, set) ==
    IF NegativeFields(set) # {}
    THEN Throw(ValidationError(
             SetPrefix(index, setIndex)
             \o numericFields[Min(NegativeFields(set))]
             \o " cannot be negative"))
    ELSE Ok

\* WorkoutSetCheck without its RPE check
WorkoutSetCheck_NoRpeCheck(index, setIndex, set) ==
    IF SetTypeCheck(index, setIndex, set).threw
    THEN SetTypeCheck(index, setIndex, set)
    ELSE SetNumericCheck(index, setIndex, set)

\* the body of the loop over the sets of a workout exercise
WorkoutSetCheck(index, setIndex, set) ==
    IF SetTypeCheck(index, setIndex, set).threw
    THEN SetTypeCheck(index, setIndex, set)
    ELSE IF ~IsNullish(Get(set, "rpe")) /\ validateRPE(Get(set, "rpe")).threw
    THEN Throw(ValidationError(
             SetPrefix(index, setIndex)
             \o validateRPE(Get(set, "rpe")).error.message))
    ELSE SetNumericCheck(index, setIndex, set)

\* RepRangeCheck without the comparison of start with end
RepRangeCheck_NoOrderCheck(index, setIndex, set) ==
    LET rr == Get(set, "rep_range")
        start == Get(rr, "start")
        end == Get(rr, "end")
    IN  IF ~Truthy(rr) THEN Ok
        ELSE IF ~IsNullish(start) /\ start.v < 0
        THEN Throw(ValidationError(
                 SetPrefix(index, setIndex)
                 \o "rep_range.start cannot be negative"))
        ELSE IF ~IsNullish(end) /\ end.v < 0
        THEN Throw(ValidationError(
                 SetPrefix(index, setIndex)
                 \o "rep_range.end cannot be negative"))
        ELSE Ok

\* the rep_range checks of a routine set
RepRangeCheck(index, setIndex, set) ==
    LET rr == Get(set, "rep_range")
        start == Get(rr, "start")
        end == Get(rr, "end")
    IN  IF ~Truthy(rr) THEN Ok
        ELSE IF ~IsNullish(start) /\ start.v < 0
        THEN Throw(ValidationError(
                 SetPrefix(index, setIndex)
                 \o "rep_range.start cannot be negative"))
        ELSE IF ~IsNullish(end) /\ end.v < 0
        THEN Throw(ValidationError(
                 SetPrefix(index, setIndex)
                 \o "rep_range.end cannot be negative"))
        ELSE IF ~IsNullish(start) /\ ~IsNullish(end) /\ start.v > end.v
        THEN Throw(ValidationError(
                 SetPrefix(index, setIndex)
                 \o "rep_range.start cannot be greater than rep_range.end"))
        ELSE Ok

\* the body of the loop over the sets of a routine exercise
RoutineSetCheck(index, setIndex, set) ==
    IF SetTypeCheck(index, setIndex, set).threw
    THEN SetTypeCheck(index, setIndex, set)
    ELSE IF SetNumericCheck(index, setIndex, set).threw
    THEN SetNumericCheck(index, setIndex, set)
    ELSE RepRangeCheck(index, setIndex, set)

RECURSIVE WorkoutSetsLoop(_, _, _)
\* for (const [setIndex, set] of exercise.sets.entries()), from position j on
WorkoutSetsLoop(index, sets, j) ==
    IF j > Len(sets.v) THEN Ok
    ELSE IF WorkoutSetCheck(index, j - 1, sets.v[j]).threw
    THEN WorkoutSetCheck(index, j - 1, sets.v[j])
    ELSE WorkoutSetsLoop(index, sets, j + 1)

RECURSIVE RoutineSetsLoop(_, _, _)
RoutineSetsLoop(index, sets, j) ==
    IF j > Len(sets.v) THEN Ok
    ELSE IF RoutineSetCheck(index, j - 1, sets.v[j]).threw
    THEN RoutineSetCheck(index, j - 1, sets.v[j])
    ELSE RoutineSetsLoop(index, sets, j + 1)

\* "Exercise at index ${index}"
ExercisePrefix(index) == "Exercise at index " \o ToString(index)

\* the checks of exercise.sets before the loop over it
SetsArrayCheck(index, exercise) ==
    IF Get(exercise, "sets").t # "array"
    THEN Throw(ValidationError(ExercisePrefix(index) \o " must have a sets array"))
    ELSE IF Len(Get(exercise, "sets").v) = 0
    THEN Throw(ValidationError(
             ExercisePrefix(index) \o " must have at least one set"))
    ELSE Ok

\* the body of the loop over workout exercises
WorkoutExerciseCheck(index, exercise) ==
    IF ~Truthy(Get(exercise, "title"))
    THEN Throw(ValidationError(
             ExercisePrefix(index) \o " is missing required field: title"))
    ELSE IF ~Truthy(Get(exercise, "exercise_template_id"))
    THEN Throw(ValidationError(
             ExercisePrefix(index)
             \o " is missing required field: exercise_template_id"))
    ELSE IF SetsArrayCheck(index, exercise).threw
    THEN SetsArrayCheck(index, exercise)
    ELSE WorkoutSetsLoop(index, Get(exercise, "sets"), 1)

\* the body of the loop over routine exercises
RoutineExerciseCheck(index, exercise) ==
    IF ~Truthy(Get(exercise, "exercise_template_id"))
    THEN Throw(ValidationError(
             ExercisePrefix(index)
             \o " is missing required field: exercise_template_id"))
    ELSE IF /\ ~IsNullish(Get(exercise, "rest_seconds"))
            /\ Get(exercise, "rest_seconds").v < 0
    THEN Throw(ValidationError(
             ExercisePrefix(index) \o ": rest_seconds cannot be negative"))
    ELSE IF SetsArrayCheck(index, exercise).threw
    THEN SetsArrayCheck(index, exercise)
    ELSE RoutineSetsLoop(index, Get(exercise, "sets"), 1)

RECURSIVE WorkoutExercisesLoop(_, _)
\* for (const [index, exercise] of exercises.entries()), from position i on
WorkoutExercisesLoop(exercises, i) ==
    IF i > Len(exercises.v) THEN Ok
    ELSE IF WorkoutExerciseCheck(i - 1, exercises.v[i]).threw
    THEN WorkoutExerciseCheck(i - 1, exercises.v[i])
    ELSE WorkoutExercisesLoop(exercises, i + 1)

RECURSIVE RoutineExercisesLoop(_, _)
RoutineExercisesLoop(exercises, i) ==
    IF i > Len(exercises.v) THEN Ok
    ELSE IF RoutineExerciseCheck(i - 1, exercises.v[i]).threw
    THEN RoutineExerciseCheck(i - 1, exercises.v[i])
    ELSE RoutineExercisesLoop(exercises, i + 1)

\* the checks of the exercises argument before the loop over it
ExercisesArrayCheck(exercises) ==
    IF exercises.t # "array"
    THEN Throw(ValidationError("Exercises must be an array"))
    ELSE IF Len(exercises.v) = 0
    THEN Throw(ValidationError("At least one exercise is required"))
    ELSE Ok

validateWorkoutExercises(exercises) ==
    IF ExercisesArrayCheck(exercises).threw
    THEN ExercisesArrayCheck(exercises)
    ELSE WorkoutExercisesLoop(exercises, 1)

validateRoutineExercises(exercises) ==
    IF ExercisesArrayCheck(exercises).threw
    THEN ExercisesArrayCheck(exercises)
    ELSE RoutineExercisesLoop(exercises, 1)

\* validateWorkoutData with the title check validateRoutineData has
validateWorkoutData_TitleChecked(workout) ==
    IF ~Truthy(Get(workout, "title")) \/ Trim(Get(workout, "title").v) = ""
    THEN Throw(ValidationError("Workout title is required and cannot be empty"))
    ELSE IF validateISO8601Date(Get(workout, "start_time"), "start_time").threw
    THEN validateISO8601Date(Get(workout, "start_time"), "start_time")
    ELSE IF validateISO8601Date(Get(workout, "end_time"), "end_time").threw
    THEN validateISO8601Date(Get(workout, "end_time"), "end_time")
    ELSE IF DateLE(DateParse(Get(workout, "end_time").v),
                   DateParse(Get(workout, "start_time").v))
    THEN Throw(ValidationError("end_time must be after start_time"))
    ELSE validateWorkoutExercises(Get(workout, "exercises"))

\* validateWorkoutData with the exercises validated before the dates
validateWorkoutData_ExercisesFirst(workout) ==
    IF validateWorkoutExercises(Get(workout, "exercises")).threw
    THEN validateWorkoutExercises(Get(workout, "exercises"))
    ELSE IF validateISO8601Date(Get(workout, "start_time"), "start_time").threw
    THEN validateISO8601Date(Get(workout, "start_time"), "start_time")
    ELSE IF validateISO8601Date(Get(workout, "end_time"), "end_time").threw
    THEN validateISO8601Date(Get(workout, "end_time"), "end_time")
    ELSE IF DateLE(DateParse(Get(workout, "end_time").v),
                   DateParse(Get(workout, "start_time").v))
    THEN Throw(ValidationError("end_time must be after start_time"))
    ELSE Ok

\* validateWorkoutData that accepts an end_time equal to the start_time
validateWorkoutData_EndMayEqual(workout) ==
    IF validateISO8601Date(Get(workout, "start_time"), "start_time").threw
    THEN validateISO8601Date(Get(workout, "start_time"), "start_time")
    ELSE IF validateISO8601Date(Get(workout, "end_time"), "end_time").threw
    THEN validateISO8601Date(Get(workout, "end_time"), "end_time")
    ELSE IF /\ DateLE(DateParse(Get(workout, "end_time").v),
                      DateParse(Get(workout, "start_time").v))
            /\ ~DateLE(DateParse(Get(workout, "start_time").v),
                       DateParse(Get(workout, "end_time").v))
    THEN Throw(ValidationError("end_time must be after start_time"))
    ELSE validateWorkoutExercises(Get(workout, "exercises"))

validateWorkoutData(workout) ==
    IF validateISO8601Date(Get(workout, "start_time"), "start_time").threw
    THEN validateISO8601Date(Get(workout, "start_time"), "start_time")
    ELSE IF validateISO8601Date(Get(workout, "end_time"), "end_time").threw
    THEN validateISO8601Date(Get(workout, "end_time"), "end_time")
    ELSE IF DateLE(DateParse(Get(workout, "end_time").v),
                   DateParse(Get(workout, "start_time").v))
    THEN Throw(ValidationError("end_time must be after start_time"))
    ELSE validateWorkoutExercises(Get(workout, "exercises"))

\* !title || title.trim() === ""
TitleIsBlank(title) == ~Truthy(title) \/ Trim(title.v) = ""

validateRoutineData(routine) ==
    IF TitleIsBlank(Get(routine, "title"))
    THEN Throw(ValidationError("Routine title is required and cannot be empty"))
    ELSE validateRoutineExercises(Get(routine, "exercises"))

validateExerciseTemplate(template) ==
    IF TitleIsBlank(Get(template, "title"))
    THEN Throw(ValidationError(
             "Exercise template title is required and cannot be empty"))
    ELSE IF ~Truthy(Get(template, "exercise_type"))
    THEN Throw(ValidationError("Exercise type is required"))
    ELSE IF ~Truthy(Get(template, "equipment_category"))
    THEN Throw(ValidationError("Equipment category is required"))
    ELSE IF ~Truthy(Get(template, "muscle_group"))
    THEN Throw(ValidationError("Muscle group is required"))
    ELSE Ok

\* PAGINATION_LIMITS
PAGINATION_LIMITS ==
    [WORKOUTS |-> Num(10), ROUTINES |-> Num(10), ROUTINE_FOLDERS |-> Num(10),
     WORKOUT_EVENTS |-> Num(10), EXERCISE_TEMPLATES |-> Num(100)]

----------------------------------------------------------------------------
(* Transformers (lib/schemas.ts) *)

\* cleanValue that turns null into undefined and keeps every string
cleanValue_KeepsBlank(value) ==
    IF value.t = "null" THEN Undefined ELSE value

cleanValue(value) ==
    IF value.t = "null" THEN Undefined
    ELSE IF value.t = "string" /\ Trim(value.v) = "" THEN Undefined
    ELSE value

removeUndefined(obj) ==
    Obj([k \in {k \in DOMAIN obj.v : obj.v[k].t # "undefined"} |-> obj.v[k]])

\* the callback of ex.sets.map passing the set's index on
WorkoutSetToAPI_KeepsIndex(set) ==
    removeUndefined(Obj([
        index |-> Get(set, "index"),
        type |-> Get(set, "type"),
        weight_kg |-> cleanValue(Get(set, "weight_kg")),
        reps |-> cleanValue(Get(set, "reps")),
        distance_meters |-> cleanValue(Get(set, "distance_meters")),
        duration_seconds |-> cleanValue(Get(set, "duration_seconds")),
        custom_metric |-> cleanValue(Get(set, "custom_metric")),
        rpe |-> cleanValue(Get(set, "rpe"))]))

\* the callback of ex.sets.map in transformWorkoutToAPI
WorkoutSetToAPI(set) ==
    removeUndefined(Obj([
        type |-> Get(set, "type"),
        weight_kg |-> cleanValue(Get(set, "weight_kg")),
        reps |-> cleanValue(Get(set, "reps")),
        distance_meters |-> cleanValue(Get(set, "distance_meters")),
        duration_seconds |-> cleanValue(Get(set, "duration_seconds")),
        custom_metric |-> cleanValue(Get(set, "custom_metric")),
        rpe |-> cleanValue(Get(set, "rpe"))]))

\* the callback of workout.exercises.map passing the exercise's title on
WorkoutExerciseToAPI_KeepsTitle(ex) ==
    removeUndefined(Obj([
        title |-> Get(ex, "title"),
        exercise_template_id |-> Get(ex, "exercise_template_id"),
        superset_id |-> cleanValue(Get(ex, "superset_id")),
        notes |-> cleanValue(Get(ex, "notes")),
        sets |-> Arr([i \in 1..Len(Get(ex, "sets").v) |->
                     WorkoutSetToAPI(Get(ex, "sets").v[i])])]))

\* the callback of workout.exercises.map in transformWorkoutToAPI
WorkoutExerciseToAPI(ex) ==
    removeUndefined(Obj([
        exercise_template_id |-> Get(ex, "exercise_template_id"),
        superset_id |-> cleanValue(Get(ex, "superset_id")),
        notes |-> cleanValue(Get(ex, "notes")),
        sets |-> Arr([i \in 1..Len(Get(ex, "sets").v) |->
                     WorkoutSetToAPI(Get(ex, "sets").v[i])])]))

transformWorkoutToAPI(workout) ==
    Obj([workout |-> removeUndefined(Obj([
        title |-> Get(workout, "title"),
        description |-> cleanValue(Get(workout, "description")),
        start_time |-> Get(workout, "start_time"),
        end_time |-> Get(workout, "end_time"),
        routine_id |-> cleanValue(Get(workout, "routine_id")),
        is_private |-> Get(workout, "is_private"),
        exercises |-> Arr([i \in 1..Len(Get(workout, "exercises").v) |->
                     WorkoutExerciseToAPI(Get(workout, "exercises").v[i])])]))])

\* set.rep_range ? removeUndefined({start, end}) : undefined
RepRangeToAPI(rr) ==
    IF Truthy(rr)
    THEN removeUndefined(Obj([
             start |-> cleanValue(Get(rr, "start")),
             end |-> cleanValue(Get(rr, "end"))]))
    ELSE Undefined

\* the callback of ex.sets.map in transformRoutineToAPI
RoutineSetToAPI(set) ==
    removeUndefined(Obj([
        type |-> Get(set, "type"),
        weight_kg |-> cleanValue(Get(set, "weight_kg")),
        reps |-> cleanValue(Get(set, "reps")),
        distance_meters |-> cleanValue(Get(set, "distance_meters")),
        duration_seconds |-> cleanValue(Get(set, "duration_seconds")),
        custom_metric |-> cleanValue(Get(set, "custom_metric")),
        rep_range |-> RepRangeToAPI(Get(set, "rep_range"))]))

\* the callback of routine.exercises.map in transformRoutineToAPI
RoutineExerciseToAPI(ex) ==
    removeUndefined(Obj([
        exercise_template_id |-> Get(ex, "exercise_template_id"),
        superset_id |-> cleanValue(Get(ex, "superset_id")),
        rest_seconds |-> cleanValue(Get(ex, "rest_seconds")),
        notes |-> cleanValue(Get(ex, "notes")),
        sets |-> Arr([i \in 1..Len(Get(ex, "sets").v) |->
                     RoutineSetToAPI(Get(ex, "sets").v[i])])]))

\* baseRoutine of transformRoutineToAPI
BaseRoutine(routine) ==
    removeUndefined(Obj([
        title |-> Get(routine, "title"),
        notes |-> cleanValue(Get(routine, "notes")),
        exercises |-> Arr([i \in 1..Len(Get(routine, "exercises").v) |->
                     RoutineExerciseToAPI(Get(routine, "exercises").v[i])])]))

transformRoutineToAPI(routine) ==
    IF HasKey(routine, "folder_id")
    THEN Obj([routine |-> removeUndefined(Obj(
             [k \in DOMAIN BaseRoutine(routine).v \cup {"folder_id"} |->
                 IF k = "folder_id"
                 THEN cleanValue(Get(routine, "folder_id"))
                 ELSE BaseRoutine(routine).v[k]]))])
    ELSE Obj([routine |-> BaseRoutine(routine)])

transformExerciseTemplateToAPI(template) ==
    Obj([exercise |-> Obj([
        title |-> Get(template, "title"),
        exercise_type |-> Get(template, "exercise_type"),
        equipment_category |-> Get(template, "equipment_category"),
        muscle_group |-> Get(template, "muscle_group"),
        other_muscles |-> Get(template, "other_muscles")])])

transformRoutineFolderToAPI(folder) ==
    Obj([routine_folder |-> Obj([title |-> Get(folder, "title")])])

----------------------------------------------------------------------------
(* Error normalizer (lib/errors.ts) *)

RECURSIVE Join(_, _)
\* Array.prototype.join on an array of strings
Join(parts, sep) ==
    IF Len(parts) = 0 THEN ""
    ELSE IF Len(parts) = 1 THEN parts[1]
    ELSE parts[1] \o sep \o Join(Tail(parts), sep)

\* the string a value contributes to parts.join("\n")
PartString(x) ==
    CASE x.t = "string" -> x.v
      [] x.t = "number" -> NumStr(x)
      [] x.t = "boolean" -> IF x.v THEN "true" ELSE "false"
      [] x.t \in {"undefined", "null"} -> ""
      [] x.t = "array" -> "[array]"
      [] OTHER -> "[object Object]"

\* the McpToolResponse every formatter builds
ErrorResponse(parts) ==
    [content |-> <<[type |-> "text", text |-> Join(parts, "\n")]>>,
     isError |-> TRUE]

STATUS_CODE_MESSAGES ==
    [s \in {400, 401, 403, 404, 429, 500, 502, 503} |->
        CASE s = 400 -> "Invalid request parameters"
          [] s = 401 -> "Unauthorized - Invalid API key"
          [] s = 403 -> "Limit exceeded or unauthorized"
          [] s = 404 -> "Resource not found"
          [] s = 429 -> "Rate limit exceeded"
          [] s = 500 -> "Hevy API error"
          [] s = 502 -> "Hevy API is temporarily unavailable"
          [] s = 503 -> "Hevy API is temporarily unavailable"]

\* getStatusMessage with no entry for 503
getStatusMessage_No503(status) ==
    IF status \in DOMAIN STATUS_CODE_MESSAGES \ {503}
    THEN STATUS_CODE_MESSAGES[status]
    ELSE "Unexpected error (HTTP " \o ToString(status) \o ")"

getStatusMessage(status) ==
    IF status \in DOMAIN STATUS_CODE_MESSAGES
    THEN STATUS_CODE_MESSAGES[status]
    ELSE "Unexpected error (HTTP " \o ToString(status) \o ")"

\* the switch on error.status of formatHevyApiError
StatusAdvice(status) ==
    CASE status = 400 ->
           <<"  - Check that all required parameters are provided",
             "  - Verify parameter formats (dates, IDs, numbers)",
             "  - Ensure all values are within valid ranges">>
      [] status = 401 ->
           <<"  - Verify your Hevy API key is configured at /setup",
             "  - Check that your API key is still valid",
             "  - Generate a new API key from Hevy if needed">>
      [] status = 403 ->
           <<"  - You may have exceeded API rate limits",
             "  - Try reducing the frequency of requests",
             "  - Contact Hevy support if limits are too restrictive">>
      [] status = 404 ->
           <<"  - Verify the resource ID exists",
             "  - Check for typos in the ID",
             "  - Use list endpoints (e.g., get_workouts) to find valid IDs">>
      [] status = 429 ->
           <<"  - Wait before making more requests",
             "  - Implement exponential backoff",
             "  - Reduce request frequency">>
      [] status \in {500, 502, 503} ->
           <<"  - This is a temporary Hevy API issue",
             "  - Try again in a few moments",
             "  - If the problem persists, contact Hevy support">>
      [] OTHER ->
           <<"  - Review the error details above",
             "  - Consult the Hevy API documentation",
             "  - Contact Hevy support if the issue persists">>

\* the TypeError of reading a property of null or undefined
PropertyTypeError(x, key) ==
    ErrorOf("TypeError",
            "Cannot read properties of " \o x.t \o " (reading '" \o key \o "')")

RECURSIVE ValidationErrorsLoop(_, _)
\* for (const err of errorData.errors), from position i on:
\* [threw, error, parts]
ValidationErrorsLoop(errors, i) ==
    IF i > Len(errors.v) THEN [threw |-> FALSE, parts |-> <<>>]
    ELSE LET err == errors.v[i]
             rest == ValidationErrorsLoop(errors, i + 1)
             line == IF err.t = "string" THEN <<"  - " \o err.v>>
                     ELSE IF Truthy(Get(err, "field")) /\ Truthy(Get(err, "message"))
                     THEN <<"  - " \o PartString(Get(err, "field")) \o ": "
                            \o PartString(Get(err, "message"))>>
                     ELSE <<>>
         IN  IF err.t # "string" /\ ReadThrows(err)
             THEN [threw |-> TRUE, error |-> PropertyTypeError(err, "field")]
             ELSE IF rest.threw THEN rest
             ELSE [threw |-> FALSE, parts |-> line \o rest.parts]

\* the "API-specific details" block of formatHevyApiError: [threw, parts]
ApiDetails(data) ==
    IF ~Truthy(data) THEN [threw |-> FALSE, parts |-> <<>>]
    ELSE IF data.t = "string"
    THEN [threw |-> FALSE, parts |-> <<"", "**Details:**", data.v>>]
    ELSE IF data.t \in {"object", "array"}
    THEN LET e == IF Truthy(Get(data, "error"))
                  THEN <<"", "**Details:**", PartString(Get(data, "error"))>>
                  ELSE <<>>
             m == IF Truthy(Get(data, "message"))
                  THEN <<"", "**Details:**", PartString(Get(data, "message"))>>
                  ELSE <<>>
             hasList == Get(data, "errors").t = "array"
             loop == ValidationErrorsLoop(Get(data, "errors"), 1)
         IN  IF ~hasList THEN [threw |-> FALSE, parts |-> e \o m]
             ELSE IF loop.threw THEN loop
             ELSE [threw |-> FALSE,
                   parts |-> e \o m \o <<"", "**Validation Errors:**">>
                             \o loop.parts]
    ELSE [threw |-> FALSE, parts |-> <<>>]

formatHevyApiError(error) ==
    IF ApiDetails(error.data).threw
    THEN Throw(ApiDetails(error.data).error)
    ELSE Return(ErrorResponse(
             <<"(x) " \o getStatusMessage(error.status), "",
               "**What went wrong:**", error.message>>
             \o ApiDetails(error.data).parts
             \o <<"", "**How to fix:**">>
             \o StatusAdvice(error.status)))

\* issue.path.length > 0 ? issue.path.join(".") : "root"
IssuePath(issue) ==
    IF Len(issue.path) > 0 THEN Join(issue.path, ".") ELSE "root"

\* the keys of errorsByPath in insertion order
RECURSIVE PathsInOrder(_, _)
PathsInOrder(issues, i) ==
    IF i = 0 THEN <<>>
    ELSE LET before == PathsInOrder(issues, i - 1)
         IN  IF \E j \in 1..Len(before) : before[j] = IssuePath(issues[i])
             THEN before
             ELSE Append(before, IssuePath(issues[i]))

\* errorsByPath.get(path): the messages of the issues at that path, in order
RECURSIVE MessagesAt(_, _, _)
MessagesAt(issues, path, i) ==
    IF i > Len(issues) THEN <<>>
    ELSE (IF IssuePath(issues[i]) = path THEN <<issues[i].message>> ELSE <<>>)
         \o MessagesAt(issues, path, i + 1)

RECURSIVE Prefixed(_, _)
Prefixed(prefix, lines) ==
    IF Len(lines) = 0 THEN <<>>
    ELSE <<prefix \o lines[1]>> \o Prefixed(prefix, Tail(lines))

RECURSIVE IssueLines(_, _, _)
\* for (const [path, messages] of errorsByPath.entries()), from position i on
IssueLines(issues, paths, i) ==
    IF i > Len(paths) THEN <<>>
    ELSE (IF paths[i] = "root"
          THEN Prefixed("  - ", MessagesAt(issues, paths[i], 1))
          ELSE <<"  - **" \o paths[i] \o "**:">>
               \o Prefixed("    ", MessagesAt(issues, paths[i], 1)))
         \o IssueLines(issues, paths, i + 1)

formatValidationError(error) ==
    Return(ErrorResponse(
        <<"(x) Schema Validation Error", "", "**What went wrong:**",
          "The provided data does not match the expected format.", "",
          "**Validation Issues:**">>
        \o IssueLines(error.errors, PathsInOrder(error.errors, Len(error.errors)), 1)
        \o <<"", "**How to fix:**",
             "  - Review the validation issues listed above",
             "  - Ensure all required fields are provided",
             "  - Check that field types match expected types (string, number, etc.)",
             "  - Verify that enum values are from the allowed set">>))

\* the remediation checklists of formatValidationErrorMessage
PageNumberAdvice ==
    <<"  - Page numbers start at 1",
      "  - Provide a valid page number (1 or greater)">>

PageSizeAdvice ==
    <<"  - Check the maximum page size for this endpoint",
      "  - Reduce the pageSize parameter",
      "  - Use pagination to retrieve data in smaller chunks">>

DateFormatAdvice ==
    <<"  - Use ISO 8601 format: YYYY-MM-DDTHH:mm:ssZ",
      "  - Example: 2024-01-15T10:00:00Z",
      "  - Include timezone (Z for UTC or +-HH:mm)">>

DateOrderAdvice ==
    <<"  - Ensure endTime is later than startTime",
      "  - Check for typos in date/time values",
      "  - Verify timezone offsets are correct">>

RpeAdvice ==
    <<"  - RPE must be one of: 6, 7, 7.5, 8, 8.5, 9, 9.5, 10",
      "  - Use half-step increments (e.g., 7.5, 8.5)",
      "  - Leave RPE null/undefined if not tracking it">>

ExerciseListAdvice ==
    <<"  - Include at least one exercise in your workout/routine",
      "  - Verify the exercises array is not empty">>

ExerciseFieldAdvice ==
    <<"  - Check that all required exercise fields are present",
      "  - Verify exercise template IDs are valid">>

SetListAdvice ==
    <<"  - Include at least one set for each exercise",
      "  - Verify the sets array is not empty">>

NegativeValueAdvice ==
    <<"  - Ensure all numeric values are positive or zero",
      "  - Check weight, reps, distance, and duration values">>

RepRangeAdvice ==
    <<"  - Ensure rep range start is less than or equal to end",
      "  - Both start and end should be positive numbers",
      "  - Example: { start: 8, end: 12 }">>

TitleAdvice ==
    <<"  - Provide a non-empty title",
      "  - Title cannot be just whitespace">>

GenericAdvice ==
    <<"  - Review the error message for specific details",
      "  - Check that all values match expected types and formats",
      "  - Verify required fields are present">>

\* the if / else-if chain over the lower-cased message
AdviceFor(message) ==
    IF Includes(message, "page") /\ Includes(message, "greater")
    THEN PageNumberAdvice
    ELSE IF Includes(message, "page size") THEN PageSizeAdvice
    ELSE IF Includes(message, "iso 8601") THEN DateFormatAdvice
    ELSE IF Includes(message, "endtime") /\ Includes(message, "after")
    THEN DateOrderAdvice
    ELSE IF Includes(message, "rpe") THEN RpeAdvice
    ELSE IF Includes(message, "exercise") /\ Includes(message, "required")
    THEN ExerciseListAdvice
    ELSE IF Includes(message, "exercise") /\ Includes(message, "missing")
    THEN ExerciseFieldAdvice
    ELSE IF /\ Includes(message, "set")
            /\ (Includes(message, "required") \/ Includes(message, "at least one"))
    THEN SetListAdvice
    ELSE IF Includes(message, "cannot be negative") THEN NegativeValueAdvice
    ELSE IF Includes(message, "reprange") THEN RepRangeAdvice
    ELSE IF Includes(message, "title") /\ Includes(message, "required")
    THEN TitleAdvice
    ELSE GenericAdvice

formatValidationErrorMessage(error) ==
    Return(ErrorResponse(
        <<"(x) Validation Error", "", "**What went wrong:**", error.message, "",
          "**How to fix:**">>
        \o AdviceFor(ToLowerCase(error.message))))

\* handleError with the test for Error moved to the front
handleError_ErrorFirst(error) ==
    IF InstanceOf(error, "Error")
    THEN Return(ErrorResponse(<<"(x) Error: " \o error.message>>))
    ELSE IF InstanceOf(error, "HevyApiError") THEN formatHevyApiError(error)
    ELSE IF InstanceOf(error, "ZodError") THEN formatValidationError(error)
    ELSE IF InstanceOf(error, "ValidationError")
    THEN formatValidationErrorMessage(error)
    ELSE Return(ErrorResponse(<<"(x) An unknown error occurred">>))

handleError(error) ==
    IF InstanceOf(error, "HevyApiError") THEN formatHevyApiError(error)
    ELSE IF InstanceOf(error, "ZodError") THEN formatValidationError(error)
    ELSE IF InstanceOf(error, "ValidationError")
    THEN formatValidationErrorMessage(error)
    ELSE IF InstanceOf(error, "Error")
    THEN Return(ErrorResponse(<<"(x) Error: " \o error.message>>))
    ELSE Return(ErrorResponse(<<"(x) An unknown error occurred">>))

----------------------------------------------------------------------------
(* Upstream client (lib/client.ts) *)

\* `${x}` in a template literal
TemplateString(x) ==
    CASE x.t = "undefined" -> "undefined"
      [] x.t = "null" -> "null"
      [] OTHER -> PartString(x)

RECURSIVE QueryPairs(_)
\* the key=value pairs of the query parameters that are not undefined
QueryPairs(params) ==
    IF Len(params) = 0 THEN <<>>
    ELSE (IF params[1][2].t = "undefined" THEN <<>>
          ELSE <<params[1][1] \o "=" \o TemplateString(params[1][2])>>)
         \o QueryPairs(Tail(params))

\* queryParams ? '?' + new URLSearchParams(...).toString() : ''
QueryString(params, given) ==
    IF given THEN "?" \o Join(QueryPairs(params), "&") ELSE ""

\* a request that calls fetch a second time
HevyClient_request_Twice(method, url, body) ==
    <<[method |-> method, url |-> url, body |-> body],
      [method |-> method, url |-> url, body |-> body]>>

\* the fetch calls HevyClient.request makes for one call of it: exactly one
HevyClient_request(method, url, body) ==
    <<[method |-> method, url |-> url, body |-> body]>>

\* response.ok
ResponseOk(status) == status \in 200..299

\* what request does once its fetch has settled with outcome o
RequestCompletion(o) ==
    IF o.kind = "reject" THEN Throw(ErrorOf("TypeError", "fetch failed"))
    ELSE IF o.json /\ ~o.parses
    THEN Throw(ErrorOf("SyntaxError", "Unexpected end of JSON input"))
    ELSE IF ~ResponseOk(o.status)
    THEN Throw(HevyApiError(
             "Hevy API request failed: " \o ToString(o.status) \o " "
             \o o.statusText, o.status, o.data))
    ELSE Return(o.data)

----------------------------------------------------------------------------
(* Tool handlers of the multi-user agent (mcp-agent.ts, MyMCP.init) *)

None == [t |-> "none"]

\* requests of the OAuth front end that may be between two awaits at once
MaxInFlight == 2

\* the success responses: two text items and no isError
JSON_stringify(x) == [json |-> x]

SuccessResponse(summary, data) ==
    [content |-> <<[type |-> "text", text |-> summary],
                   [type |-> "text", text |-> JSON_stringify(data)]>>]

\* Math.ceil(result.count / page_size), rendered
PageCount(count, page_size) ==
    IF count.t = "number"
    THEN ToString(0 - ((0 - count.v) \div page_size.v))
    ELSE "NaN"

\* `Found ${result.count} <what> (page ${page} of ${Math.ceil(...)})`
ListSummary(what, args, data) ==
    IF ReadThrows(data) THEN Throw(PropertyTypeError(data, "count"))
    ELSE Return(SuccessResponse(
             "Found " \o TemplateString(Get(data, "count")) \o " " \o what
             \o " (page " \o NumStr(Get(args, "page")) \o " of "
             \o PageCount(Get(data, "count"), Get(args, "page_size")) \o ")",
             data))

\* `<label>: ${result.title || 'Untitled'}`
TitleSummary(label, data) ==
    IF ReadThrows(data) THEN Throw(PropertyTypeError(data, "title"))
    ELSE Return(SuccessResponse(
             label \o ": "
             \o (IF Truthy(Get(data, "title"))
                 THEN TemplateString(Get(data, "title")) ELSE "Untitled"),
             data))

\* the text a handler builds from the client's result, or the TypeError of
\* reading a property of a null or undefined result
FormatResult(tool, args, data) ==
    CASE tool = "get_workouts" -> ListSummary("workouts", args, data)
      [] tool = "get_routines" -> ListSummary("routines", args, data)
      [] tool = "get_exercise_templates" ->
           ListSummary("exercise templates", args, data)
      [] tool = "get_routine_folders" -> ListSummary("routine folders", args, data)
      [] tool = "get_workout" -> TitleSummary("Workout", data)
      [] tool = "get_exercise_template" -> TitleSummary("Exercise Template", data)
      [] tool = "get_routine_folder" -> TitleSummary("Routine Folder", data)
      [] tool = "get_routine" ->
           IF ReadThrows(data) THEN Throw(PropertyTypeError(data, "routine"))
           ELSE IF ReadThrows(Get(data, "routine"))
           THEN Throw(PropertyTypeError(Get(data, "routine"), "title"))
           ELSE TitleSummary("Routine", Get(data, "routine"))
      [] tool = "get_workouts_count" ->
           IF ReadThrows(data) THEN Throw(PropertyTypeError(data, "workout_count"))
           ELSE Return(SuccessResponse(
                    "Total workouts: " \o TemplateString(Get(data, "workout_count")),
                    data))
      [] tool = "get_workout_events" ->
           IF ReadThrows(data) THEN Throw(PropertyTypeError(data, "events"))
           ELSE IF ReadThrows(Get(data, "events"))
           THEN Throw(PropertyTypeError(Get(data, "events"), "length"))
           ELSE Return(SuccessResponse(
                    "Found "
                    \o (IF Get(data, "events").t = "array"
                        THEN ToString(Len(Get(data, "events").v))
                        ELSE "undefined")
                    \o " events since " \o Get(args, "since").v, data))
      [] tool = "get_exercise_history" ->
           Return(SuccessResponse(
               "Exercise history for " \o Get(args, "exercise_template_id").v
               \o " from " \o Get(args, "start_date").v
               \o " to " \o Get(args, "end_date").v, data))
      [] tool = "create_workout" ->
           Return(SuccessResponse("Workout created successfully!", data))
      [] tool = "update_workout" ->
           Return(SuccessResponse("Workout updated successfully!", data))
      [] tool = "create_routine" ->
           Return(SuccessResponse("Routine created successfully!", data))
      [] tool = "update_routine" ->
           Return(SuccessResponse("Routine updated successfully!", data))
      [] tool = "create_exercise_template" ->
           Return(SuccessResponse("Exercise template created successfully!", data))
      [] tool = "create_routine_folder" ->
           Return(SuccessResponse("Routine folder created successfully!", data))

\* a try block whose later stages run whatever the validator's outcome
TryBlock_RunsOn(v, stages, fetches) ==
    [ran |-> stages, requests |-> fetches, thrown |-> v]

\* the try block of a handler up to its await: the validator's outcome v
\* decides whether the later stages run and the request is issued
TryBlock(v, stages, fetches) ==
    IF v.threw
    THEN [ran |-> <<"validate">>, requests |-> <<>>, thrown |-> v]
    ELSE [ran |-> stages, requests |-> fetches, thrown |-> Ok]

\* `catch (error) { return handleError(error); }`, or the handler's return
\* of its own response: the handler returns, or the exception leaves it
Finish(outcome) ==
    LET h == IF outcome.threw THEN handleError(outcome.error) ELSE outcome
    IN  /\ caught' = IF outcome.threw THEN outcome.error ELSE None
        /\ IF h.threw
           THEN pc' = "threw" /\ escaped' = h.error /\ result' = None
           ELSE pc' = "returned" /\ escaped' = None /\ result' = h.value

\* a tool invocation up to the point where it returns or awaits the fetch
Invoke(tool, args, v, stages, fetches) ==
    LET t == TryBlock(v, stages, fetches)
    IN  /\ pc = "idle"
        /\ call' = [tool |-> tool, args |-> args]
        /\ ran' = t.ran
        /\ requests' = t.requests
        /\ IF t.thrown.threw
           THEN Finish(t.thrown)
           ELSE /\ pc' = "awaiting"
                /\ UNCHANGED <<caught, result, escaped>>
        /\ UNCHANGED authVars

baseUrl == "https://api.hevyapp.com"

\* the four paginated list tools
ListTool(tool, path, limit, page, page_size) ==
    Invoke(tool, Obj([page |-> page, page_size |-> page_size]),
           validatePagination(page, page_size, limit),
           <<"validate", "request">>,
           HevyClient_request("GET",
               baseUrl \o path
               \o QueryString(<<<<"page", page>>, <<"pageSize", page_size>>>>, TRUE),
               Undefined))

\* the tools that read one entity by its id
GetTool(tool, path, key, id) ==
    Invoke(tool, Obj([k \in {key} |-> id]), Ok, <<"request">>,
           HevyClient_request("GET", baseUrl \o path \o TemplateString(id)
                                     \o QueryString(<<>>, FALSE), Undefined))

----------------------------------------------------------------------------
(* Inputs: the arguments the tools are invoked with *)

MaxExercises == 2

MaxErrorItems == 2

MaxPage == 2

\* all sequences over S of length at most n
SeqsUpTo(S, n) == UNION {[1..k -> S] : k \in 0..n}

DateStrings ==
    {"2024-01-15T10:00:00Z", "2024-01-15T11:00:00Z", "2024-01-15T12:00:00+02:00",
     "2024-02-30T10:00:00Z", "2024-13-01T10:00:00Z", "not-a-date"}

\* the start_time and end_time a workout is logged with
TimePairs ==
    {<<"2024-01-15T10:00:00Z", "2024-01-15T11:00:00Z">>,
     <<"2024-01-15T11:00:00Z", "2024-01-15T10:00:00Z">>,
     <<"2024-01-15T10:00:00Z", "2024-01-15T10:00:00Z">>,
     <<"2024-01-15T10:00:00Z", "2024-01-15T12:00:00+02:00">>,
     <<"2024-01-15T10:00:00Z", "2024-02-30T10:00:00Z">>,
     <<"2024-02-30T10:00:00Z", "2024-01-15T11:00:00Z">>,
     <<"2024-13-01T10:00:00Z", "2024-01-15T11:00:00Z">>,
     <<"2024-01-15T10:00:00Z", "not-a-date">>,
     <<"not-a-date", "not-a-date">>}

WorkoutSets ==
    [ok |-> Obj([type |-> Str("normal"), weight_kg |-> Num(100), reps |-> Num(10)]),
     rpe |-> Obj([type |-> Str("warmup"), weight_kg |-> Null, reps |-> Num(8),
                  rpe |-> Tenths(75)]),
     badRpe |-> Obj([type |-> Str("normal"), reps |-> Num(10), rpe |-> Num(11)]),
     badRpeNeg |-> Obj([type |-> Str("dropset"), weight_kg |-> Num(-10),
                        rpe |-> Tenths(65)]),
     badType |-> Obj([type |-> Str("bogus"), weight_kg |-> Num(100)]),
     noType |-> Obj([type |-> Str(""), weight_kg |-> Num(100), reps |-> Num(10)]),
     negCustom |-> Obj([type |-> Str("failure"), duration_seconds |-> Num(30),
                        reps |-> Num(-1), custom_metric |-> Num(-1)])]

WorkoutExercise(title, id, sets) ==
    Obj([title |-> Str(title), exercise_template_id |-> Str(id),
         sets |-> Arr(sets)])

WorkoutExercises ==
    {WorkoutExercise("Squat", "abc", <<WorkoutSets.ok>>),
     Obj([title |-> Str("Bench Press"), exercise_template_id |-> Str("def"),
          superset_id |-> Null, notes |-> Str(""),
          sets |-> Arr(<<WorkoutSets.rpe, WorkoutSets.ok>>)]),
     WorkoutExercise("", "abc", <<WorkoutSets.ok>>),
     WorkoutExercise("Squat", "", <<WorkoutSets.ok>>),
     WorkoutExercise("Squat", "abc", <<>>),
     WorkoutExercise("Squat", "abc", <<WorkoutSets.ok, WorkoutSets.negCustom>>),
     WorkoutExercise("Squat", "abc", <<WorkoutSets.badRpe>>),
     WorkoutExercise("Squat", "abc", <<WorkoutSets.badRpeNeg>>),
     WorkoutExercise("Squat", "abc", <<WorkoutSets.badType>>),
     WorkoutExercise("Squat", "abc", <<WorkoutSets.noType>>)}

Workout(title, times, exercises) ==
    Obj([title |-> Str(title), description |-> Str("  "),
         start_time |-> Str(times[1]), end_time |-> Str(times[2]),
         routine_id |-> Null, is_private |-> Bool(FALSE),
         exercises |-> Arr(exercises)])

WorkoutTitles == {"", "Leg Day"}

\* every pair of timestamps with no exercise or one, and every list of
\* exercises with timestamps in order
Workouts ==
    {Workout(title, times, exercises) :
        title \in WorkoutTitles, times \in TimePairs,
        exercises \in {<<>>, <<WorkoutExercise("Squat", "abc", <<WorkoutSets.ok>>)>>}}
    \cup {Workout(title, <<"2024-01-15T10:00:00Z", "2024-01-15T11:00:00Z">>,
                  exercises) :
            title \in WorkoutTitles,
            exercises \in SeqsUpTo(WorkoutExercises, MaxExercises)}

RoutineSet(fields) == Obj([type |-> Str("normal")] @@ fields)

RoutineExercise(id, rest, sets) ==
    Obj([exercise_template_id |-> Str(id), rest_seconds |-> rest,
         sets |-> Arr(sets)])

RoutineExercises ==
    {RoutineExercise("abc", Num(90),
         <<RoutineSet([weight_kg |-> Num(100),
                       rep_range |-> Obj([start |-> Num(8), end |-> Num(12)])])>>),
     RoutineExercise("abc", Null,
         <<RoutineSet([reps |-> Num(10), rep_range |-> Null]),
           RoutineSet([rep_range |-> Obj([start |-> Num(8)])])>>),
     RoutineExercise("", Num(90), <<RoutineSet([reps |-> Num(10)])>>),
     RoutineExercise("abc", Num(-5), <<RoutineSet([reps |-> Num(10)])>>),
     RoutineExercise("abc", Num(90), <<>>),
     RoutineExercise("abc", Num(90),
         <<RoutineSet([rep_range |-> Obj([start |-> Num(12), end |-> Num(8)])])>>),
     RoutineExercise("abc", Num(90),
         <<RoutineSet([rep_range |-> Obj([start |-> Num(-1), end |-> Num(8)])])>>),
     RoutineExercise("abc", Num(90),
         <<RoutineSet([rep_range |-> Obj([end |-> Num(-1)])])>>),
     RoutineExercise("abc", Num(90), <<RoutineSet([reps |-> Num(-1)])>>),
     RoutineExercise("abc", Num(90),
         <<Obj([type |-> Str("bogus"), reps |-> Num(10)])>>)}

RoutineTitles == {"", "  ", "Push Day"}

Routine(title, exercises) ==
    Obj([title |-> Str(title), notes |-> Str(""), exercises |-> Arr(exercises)])

\* every title with no exercise or one, and every list of exercises with a
\* title; UpdateRoutineSchema has no folder_id
UpdateRoutines ==
    {Routine(title, exercises) :
        title \in RoutineTitles,
        exercises \in {<<>>, <<RoutineExercise("abc", Num(90),
                                   <<RoutineSet([reps |-> Num(10)])>>)>>}}
    \cup {Routine("Push Day", exercises) :
            exercises \in SeqsUpTo(RoutineExercises, MaxExercises)}

\* CreateRoutineSchema: an optional, nullable folder_id
CreateRoutines ==
    UpdateRoutines
    \cup {Obj(r.v @@ [folder_id |-> f]) : r \in UpdateRoutines, f \in {Null, Num(1)}}

ExerciseTemplates ==
    {Obj([title |-> Str(title), exercise_type |-> Str(type),
          equipment_category |-> Str(equipment), muscle_group |-> Str(muscle)]
         @@ other) :
        title \in {"", " ", "Cable Fly"}, type \in {"", "weight_reps"},
        equipment \in {"", "dumbbell"}, muscle \in {"", "chest"},
        other \in {<<>>, [other_muscles |-> Arr(<<Str("triceps")>>)]}}

RoutineFolders == {Obj([title |-> Str(title)]) : title \in {"", "My Folder"}}

Ids == {Str("b459cba5"), Str("")}

DateValues == {Str(d) : d \in DateStrings}

HistoryDates == {Str("2024-01-01"), Str("2024-12-31")}

Pages == {Num(n) : n \in 0..MaxPage}

PageSizes == {Num(n) : n \in {0, 1, 5, 10, 11, 20, 100, 101}}

(* Outcomes of the fetch *)

Reject == [kind |-> "reject"]

Response(status, statusText, json, parses, data) ==
    [kind |-> "response", status |-> status, statusText |-> statusText,
     json |-> json, parses |-> parses, data |-> data]

\* the elements an upstream "errors" array may hold
ErrorItems ==
    {Str("title is too long"),
     Obj([field |-> Str("title"), message |-> Str("is required")]),
     Obj([code |-> Num(7)]),
     Null}

ErrorLists == SeqsUpTo(ErrorItems, MaxErrorItems)

\* the JSON bodies of the responses
ErrorBodies ==
    {Null, Str("Not Found"), Obj([error |-> Str("Workout not found")]),
     Obj([message |-> Str("Invalid request body")]),
     Obj([error |-> Obj([code |-> Num(7)]), message |-> Str("bad")])}
    \cup {Obj([errors |-> Arr(l)]) : l \in ErrorLists}

SuccessBodies ==
    {Null, Obj(<<>>),
     Obj([count |-> Num(25), page_count |-> Num(3), title |-> Str("Leg Day"),
          workout_count |-> Num(42), events |-> Arr(<<>>),
          routine |-> Obj([title |-> Str("Push Day")])])}

\* the outcomes the agent's fetch settles with
FetchOutcomes ==
    {Reject,
     Response(200, "OK", TRUE, FALSE, Undefined),
     Response(200, "OK", FALSE, TRUE, Str("ok")),
     Response(404, "Not Found", FALSE, TRUE, Str("")),
     Response(502, "Bad Gateway", TRUE, FALSE, Undefined),
     Response(503, "Service Unavailable", FALSE, TRUE, Str("upstream down"))}
    \cup {Response(200, "OK", TRUE, TRUE, b) : b \in SuccessBodies}
    \cup {Response(400, "Bad Request", TRUE, TRUE, b) : b \in ErrorBodies}

----------------------------------------------------------------------------------------------------------------------------------------
(* The tools registered by init *)

get_workouts ==
    /\ pc = "idle"
    /\ \E page \in Pages, page_size \in PageSizes :
          ListTool("get_workouts", "/v1/workouts", PAGINATION_LIMITS.WORKOUTS,
                   page, page_size)

get_workout ==
    /\ pc = "idle"
    /\ \E workout_id \in Ids :
          GetTool("get_workout", "/v1/workouts/", "workout_id", workout_id)

create_workout ==
    /\ pc = "idle"
    /\ \E args \in Workouts :
          Invoke("create_workout", args, validateWorkoutData(args),
                 <<"validate", "transform", "request">>,
                 HevyClient_request("POST", baseUrl \o "/v1/workouts",
                                    transformWorkoutToAPI(args)))

update_workout ==
    /\ pc = "idle"
    /\ \E workoutData \in Workouts, workout_id \in Ids :
          Invoke("update_workout",
                 Obj(workoutData.v @@ [workout_id |-> workout_id]),
                 validateWorkoutData(workoutData),
                 <<"validate", "transform", "request">>,
                 HevyClient_request("PUT",
                     baseUrl \o "/v1/workouts/" \o TemplateString(workout_id),
                     transformWorkoutToAPI(workoutData)))

get_workouts_count ==
    /\ pc = "idle"
    /\ Invoke("get_workouts_count", Obj(<<>>), Ok, <<"request">>,
              HevyClient_request("GET", baseUrl \o "/v1/workouts/count",
                                 Undefined))

get_workout_events ==
    /\ pc = "idle"
    /\ \E since \in DateValues :
          Invoke("get_workout_events", Obj([since |-> since]),
                 validateISO8601Date(since, "since"),
                 <<"validate", "request">>,
                 HevyClient_request("GET",
                     baseUrl \o "/v1/workouts/events"
                     \o QueryString(<<<<"since", since>>>>, TRUE), Undefined))

get_routines ==
    /\ pc = "idle"
    /\ \E page \in Pages, page_size \in PageSizes :
          ListTool("get_routines", "/v1/routines", PAGINATION_LIMITS.ROUTINES,
                   page, page_size)

get_routine ==
    /\ pc = "idle"
    /\ \E routine_id \in Ids :
          GetTool("get_routine", "/v1/routines/", "routine_id", routine_id)

create_routine ==
    /\ pc = "idle"
    /\ \E args \in CreateRoutines :
          Invoke("create_routine", args, validateRoutineData(args),
                 <<"validate", "transform", "request">>,
                 HevyClient_request("POST", baseUrl \o "/v1/routines",
                                    transformRoutineToAPI(args)))

\* the arguments of update_routine as the caller may send them: also with the
\* folder_id that only create_routine declares
UpdateRoutineArguments ==
    UpdateRoutines
    \cup {Obj(Routine("Push Day", exercises).v @@ [folder_id |-> folder]) :
             exercises \in {<<>>, <<RoutineExercise("abc", Num(90),
                                        <<RoutineSet([reps |-> Num(10)])>>)>>},
             folder \in {Null, Num(1)}}

\* the keys of the shape update_routine is registered with
UpdateRoutineShape == {"routine_id", "title", "notes", "exercises"}

\* the parse that passes every key of the arguments on to the handler
UpdateRoutineParse_Passthrough(arguments) == arguments

\* the parse of the arguments against the registered shape: keys the shape
\* does not declare are stripped before the handler is called
UpdateRoutineParse(arguments) ==
    Obj([k \in DOMAIN arguments.v \cap UpdateRoutineShape |-> arguments.v[k]])

\* const { routine_id, ...routineData } = args
RestOfRoutine(args) == Obj([k \in DOMAIN args.v \ {"routine_id"} |-> args.v[k]])

update_routine ==
    /\ pc = "idle"
    /\ \E arguments \in UpdateRoutineArguments, routine_id \in Ids :
          LET args == UpdateRoutineParse(
                          Obj(arguments.v @@ [routine_id |-> routine_id]))
          IN  Invoke("update_routine",
                     Obj(arguments.v @@ [routine_id |-> routine_id]),
                     validateRoutineData(RestOfRoutine(args)),
                     <<"validate", "transform", "request">>,
                     HevyClient_request("PUT",
                         baseUrl \o "/v1/routines/" \o TemplateString(routine_id),
                         transformRoutineToAPI(RestOfRoutine(args))))

get_exercise_templates ==
    /\ pc = "idle"
    /\ \E page \in Pages, page_size \in PageSizes :
          ListTool("get_exercise_templates", "/v1/exercise_templates",
                   PAGINATION_LIMITS.EXERCISE_TEMPLATES, page, page_size)

get_exercise_template ==
    /\ pc = "idle"
    /\ \E exercise_template_id \in Ids :
          GetTool("get_exercise_template", "/v1/exercise_templates/",
                  "exercise_template_id", exercise_template_id)

create_exercise_template ==
    /\ pc = "idle"
    /\ \E args \in ExerciseTemplates :
          Invoke("create_exercise_template", args, validateExerciseTemplate(args),
                 <<"validate", "transform", "request">>,
                 HevyClient_request("POST", baseUrl \o "/v1/exercise_templates",
                                    transformExerciseTemplateToAPI(args)))

get_exercise_history ==
    /\ pc = "idle"
    /\ \E exercise_template_id \in Ids, start_date \in HistoryDates,
          end_date \in HistoryDates :
          Invoke("get_exercise_history",
                 Obj([exercise_template_id |-> exercise_template_id,
                      start_date |-> start_date, end_date |-> end_date]),
                 Ok, <<"request">>,
                 HevyClient_request("GET",
                     baseUrl \o "/v1/exercise_history/"
                     \o TemplateString(exercise_template_id)
                     \o QueryString(<<<<"start_date", start_date>>,
                                      <<"end_date", end_date>>>>, TRUE),
                     Undefined))

get_routine_folders ==
    /\ pc = "idle"
    /\ \E page \in Pages, page_size \in PageSizes :
          ListTool("get_routine_folders", "/v1/routine_folders",
                   PAGINATION_LIMITS.ROUTINE_FOLDERS, page, page_size)

get_routine_folder ==
    /\ pc = "idle"
    /\ \E routine_folder_id \in Ids :
          GetTool("get_routine_folder", "/v1/routine_folders/",
                  "routine_folder_id", routine_folder_id)

create_routine_folder ==
    /\ pc = "idle"
    /\ \E args \in RoutineFolders :
          Invoke("create_routine_folder", args, Ok, <<"transform", "request">>,
                 HevyClient_request("POST", baseUrl \o "/v1/routine_folders",
                                    transformRoutineFolderToAPI(args)))

\* the awaited fetch settles with outcome o: request completes, and the
\* handler formats the result or its catch block normalizes the error
FetchSettles ==
    /\ pc = "awaiting"
    /\ \E o \in FetchOutcomes :
          Finish(IF RequestCompletion(o).threw
                 THEN RequestCompletion(o)
                 ELSE FormatResult(call.tool, call.args,
                                   RequestCompletion(o).value))
    /\ UNCHANGED <<call, ran, requests>>
    /\ UNCHANGED authVars

\* the invocation is over; the agent serves the next one
NextInvocation ==
    /\ pc \in {"returned", "threw"}
    /\ pc' = "idle"
    /\ call' = None /\ ran' = <<>> /\ requests' = <<>>
    /\ caught' = None /\ result' = None /\ escaped' = None
    /\ UNCHANGED authVars

----------------
(* The agent serving tool invocations *)

\* an empty OAUTH_KV namespace, no request in flight and no agent instance
InitAuth ==
    /\ kv = <<>>
    /\ nonce = [state |-> 0, session |-> 0, code |-> 0]
    /\ flight = <<>>
    /\ reply = None
    /\ agent = None
    /\ hist = [bound |-> <<>>, granted |-> <<>>, loggedOut |-> {}]

Init ==
    /\ pc = "idle"
    /\ call = None /\ ran = <<>> /\ requests = <<>>
    /\ caught = None /\ result = None /\ escaped = None
    /\ InitAuth

Next ==
    \/ get_workouts
    \/ get_workout
    \/ create_workout
    \/ update_workout
    \/ get_workouts_count
    \/ get_workout_events
    \/ get_routines
    \/ get_routine
    \/ create_routine
    \/ update_routine
    \/ get_exercise_templates
    \/ get_exercise_template
    \/ create_exercise_template
    \/ get_exercise_history
    \/ get_routine_folders
    \/ get_routine_folder
    \/ create_routine_folder
    \/ FetchSettles
    \/ NextInvocation

Spec == Init /\ [][Next]_vars

----------------------------------------------------------------------------
(* The error normalizer on its own: handleError applied to thrown values *)

Statuses == {400, 401, 403, 404, 429, 500, 502, 503, 418}

ValidationMessages ==
    {"Page must be 1 or greater, got 0",
     "Page size cannot exceed 10, got 11",
     "since must be in ISO 8601 format (e.g., 2024-01-15T10:00:00Z), got x",
     "end_time must be after start_time",
     "endTime must be after startTime",
     "At least one exercise is required",
     "Exercise at index 0 is missing required field: title",
     "Exercise at index 0 must have at least one set",
     "Exercise 0, Set 0: weight_kg cannot be negative",
     "Exercise 0, Set 0: rep_range.start cannot be greater than rep_range.end",
     "Exercise 0, Set 0: repRange.start cannot be greater than repRange.end",
     "Routine title is required and cannot be empty",
     "Something else went wrong",
     ""}

Issue(path, message) == [path |-> path, message |-> message]

ZodIssues ==
    {Issue(<<>>, "Required"), Issue(<<"title">>, "Expected string, received number"),
     Issue(<<"exercises", "0", "sets">>, "Required"),
     Issue(<<"title">>, "String must contain at least 1 character(s)")}

\* the values a try block can throw
Thrown ==
    {HevyApiError("Hevy API request failed: " \o ToString(status), status, data) :
        status \in Statuses,
        data \in ErrorBodies \cup {Undefined, Str(""), Num(0), Bool(TRUE)}}
    \cup {ValidationError(m) : m \in ValidationMessages}
    \cup {ZodError(issues) : issues \in SeqsUpTo(ZodIssues, 2)}
    \cup {ErrorOf(class, m) : class \in {"Error", "TypeError", "SyntaxError"},
                              m \in {"", "fetch failed"}}
    \cup {Undefined, Null, Str("boom"), Num(42),
          Obj([message |-> Str("not an Error")]),
          Obj([status |-> Num(404), data |-> Null])}

\* catch (error) { return handleError(error); } with the thrown value e
handleErrorCall ==
    /\ pc = "idle"
    /\ \E e \in Thrown :
          /\ call' = [tool |-> "handleError", args |-> e]
          /\ Finish(Throw(e))
    /\ UNCHANGED <<ran, requests>>
    /\ UNCHANGED authVars

NextErrors ==
    \/ handleErrorCall
    \/ NextInvocation

SpecErrors == Init /\ [][NextErrors]_vars

----------------------------------------------------------------------------
(* Properties of the tool handlers *)

\* the invocation has ended (the handler returned or an exception left it)
Ended == pc \in {"returned", "threw"}

\* the catch block of the handler ran, with a ValidationError
CaughtValidationError ==
    Ended /\ caught.t = "error" /\ caught.class = "ValidationError"

\* the catch block of the handler ran, with a HevyApiError
CaughtHevyApiError ==
    Ended /\ caught.t = "error" /\ caught.class = "HevyApiError"

\* C1: every tool handler returns a result for every input and every upstream
\* outcome: no exception leaves a handler, and whenever something was raised
\* inside it the handler returns the normalizer's result, with isError = true.
C1_HandlerAlwaysReturns ==
    /\ pc # "threw"
    /\ (pc = "returned" /\ caught.t # "none") => (result.isError = TRUE)

ValidatedTools ==
    {"create_workout", "update_workout", "create_routine", "update_routine",
     "create_exercise_template", "get_workouts", "get_routines",
     "get_exercise_templates", "get_routine_folders"}

\* C2: in the tools that validate their arguments, when the validator raises a
\* ValidationError no transform runs and no upstream request is issued.
C2_ValidationFailureStopsHandler ==
    (CaughtValidationError /\ call.tool \in ValidatedTools)
        => /\ requests = <<>>
           /\ \A i \in 1..Len(ran) : ran[i] # "transform"

C2_Witness ==
    /\ CaughtValidationError
    /\ call.tool = "update_routine"
    /\ requests = <<>>
    /\ pc = "returned"

\* the requests the tools named in T have issued in this invocation
RequestsOf(T) ==
    IF pc # "idle" /\ call.tool \in T
    THEN {requests[i] : i \in 1..Len(requests)}
    ELSE {}

\* a set of a workout body: type in the closed set, a present rpe one of the
\* allowed values, present numeric metrics not negative
WorkoutSetOk(set) ==
    /\ Get(set, "type").t = "string"
    /\ Get(set, "type").v \in {"warmup", "normal", "failure", "dropset"}
    /\ Get(set, "rpe").t \notin {"undefined", "null"}
          => /\ Get(set, "rpe").t = "number"
             /\ Get(set, "rpe").v \in {60, 70, 75, 80, 85, 90, 95, 100}
    /\ \A k \in {"weight_kg", "reps", "distance_meters", "duration_seconds",
                 "custom_metric"} :
          Get(set, k).t = "number" => Get(set, k).v >= 0

\* the timestamps and the exercises of a workout (arguments or wire shape)
WorkoutOk(w) ==
    /\ Get(w, "start_time").t = "string" /\ Get(w, "end_time").t = "string"
    /\ iso8601Pattern(Get(w, "start_time").v)
    /\ iso8601Pattern(Get(w, "end_time").v)
    /\ DateParse(Get(w, "start_time").v).valid
    /\ DateParse(Get(w, "end_time").v).valid
    /\ ~DateLE(DateParse(Get(w, "end_time").v), DateParse(Get(w, "start_time").v))
    /\ Get(w, "exercises").t = "array"
    /\ Len(Get(w, "exercises").v) >= 1
    /\ \A i \in 1..Len(Get(w, "exercises").v) :
          LET sets == Get(Get(w, "exercises").v[i], "sets")
          IN  /\ sets.t = "array"
              /\ Len(sets.v) >= 1
              /\ \A j \in 1..Len(sets.v) : WorkoutSetOk(sets.v[j])

WorkoutTools == {"create_workout", "update_workout"}

\* C3: every body create_workout and update_workout hand to the client has
\* end_time after start_time, at least one exercise, at least one set per
\* exercise, every set type in {warmup, normal, failure, dropset}, every
\* present rpe in {6, 7, 7.5, 8, 8.5, 9, 9.5, 10} and every present numeric
\* metric >= 0.
C3_WorkoutBodiesValid ==
    \A r \in RequestsOf(WorkoutTools) : WorkoutOk(Get(r.body, "workout"))

\* a body with two exercises, an rpe of 7.5 and a null weight went out
C3_Witness ==
    \E r \in RequestsOf(WorkoutTools) :
        LET exercises == Get(Get(r.body, "workout"), "exercises").v
        IN  /\ Len(exercises) = 2
            /\ \E i \in 1..2 :
                  LET rpe == Get(Get(exercises[i], "sets").v[1], "rpe")
                  IN  rpe.t = "number" /\ rpe.v = 75

\* a rep_range of a routine body: present bounds not negative, start <= end
RepRangeOk(rr) ==
    rr.t = "object"
        => /\ Get(rr, "start").t = "number" => Get(rr, "start").v >= 0
           /\ Get(rr, "end").t = "number" => Get(rr, "end").v >= 0
           /\ (Get(rr, "start").t = "number" /\ Get(rr, "end").t = "number")
                 => Get(rr, "start").v <= Get(rr, "end").v

\* an exercise of a routine body
RoutineExerciseOk(ex) ==
    /\ Get(ex, "exercise_template_id").t = "string"
    /\ Get(ex, "exercise_template_id").v # ""
    /\ Get(ex, "rest_seconds").t = "number" => Get(ex, "rest_seconds").v >= 0
    /\ Get(ex, "sets").t = "array"
    /\ Len(Get(ex, "sets").v) >= 1
    /\ \A j \in 1..Len(Get(ex, "sets").v) :
          RepRangeOk(Get(Get(ex, "sets").v[j], "rep_range"))

RoutineOk(r) ==
    /\ Get(r, "title").t = "string"
    /\ Trim(Get(r, "title").v) # ""
    /\ Get(r, "exercises").t = "array"
    /\ Len(Get(r, "exercises").v) >= 1
    /\ \A i \in 1..Len(Get(r, "exercises").v) :
          RoutineExerciseOk(Get(r, "exercises").v[i])

RoutineTools == {"create_routine", "update_routine"}

\* C4: every body create_routine and update_routine hand to the client has a
\* title that is non-empty after trimming, at least one exercise, a template
\* id and at least one set per exercise, every present rest_seconds >= 0, and
\* every rep_range with bounds >= 0 and start <= end.
C4_RoutineBodiesValid ==
    \A r \in RequestsOf(RoutineTools) : RoutineOk(Get(r.body, "routine"))

\* a body with a rep range 8..12 and one with only a start bound went out
C4_Witness ==
    \E r \in RequestsOf(RoutineTools) :
        LET exercises == Get(Get(r.body, "routine"), "exercises").v
        IN  /\ Len(exercises) = 2
            /\ Get(Get(exercises[1], "sets").v[1], "rep_range").t = "object"
            /\ Len(Get(exercises[2], "sets").v) = 2
            /\ Get(Get(exercises[2], "sets").v[2], "rep_range").t = "object"

\* the workout of the invocation was given an empty title
EmptyWorkoutTitle ==
    /\ pc # "idle"
    /\ call.tool \in WorkoutTools
    /\ Get(call.args, "title").t = "string"
    /\ Get(call.args, "title").v = ""

\* every exercise of the workout arguments names its title and its template
ExercisesNamed(w) ==
    \A i \in 1..Len(Get(w, "exercises").v) :
        /\ Truthy(Get(Get(w, "exercises").v[i], "title"))
        /\ Truthy(Get(Get(w, "exercises").v[i], "exercise_template_id"))

\* C5 as stated: a workout with an empty-string title is never sent upstream
\* by create_workout or update_workout; it is rejected as a validation
\* failure.
C5_EmptyTitleNeverSent ==
    EmptyWorkoutTitle => (requests = <<>> /\ (Ended => CaughtValidationError))

\* C5, amended: create_workout and update_workout do not check the title: a
\* workout with an empty-string title whose timestamps, exercises and sets are
\* valid is handed to the client, with its title "" unchanged in the body.
C5_EmptyTitleSentUnchanged ==
    (EmptyWorkoutTitle /\ WorkoutOk(call.args) /\ ExercisesNamed(call.args))
        => /\ Len(requests) = 1
           /\ Get(Get(requests[1].body, "workout"), "title").t = "string"
           /\ Get(Get(requests[1].body, "workout"), "title").v = ""
           /\ ~CaughtValidationError

C5_Witness ==
    /\ EmptyWorkoutTitle
    /\ call.tool = "create_workout"
    /\ Len(requests) = 1
    /\ Get(Get(requests[1].body, "workout"), "title").v = ""
    /\ pc = "returned"
    /\ caught.t = "none"

----------------------------------------------------------------------------
(* Properties of the error normalizer *)

\* the catch block ran
Caught == Ended /\ caught.t # "none"

\* the thrown value is an instance of exactly the named error class
IsA(e, class) == e.t = "error" /\ e.class = class

\* the formatter the first matching test selects, applied to e
FirstMatch(e) ==
    CASE IsA(e, "HevyApiError") -> formatHevyApiError(e)
      [] IsA(e, "ZodError") -> formatValidationError(e)
      [] IsA(e, "ValidationError") -> formatValidationErrorMessage(e)
      [] /\ e.t = "error"
         /\ e.class \notin {"HevyApiError", "ZodError", "ValidationError"} ->
           Return(ErrorResponse(<<"(x) Error: " \o e.message>>))
      [] OTHER -> Return(ErrorResponse(<<"(x) An unknown error occurred">>))

\* C7: handleError classifies the thrown value by the first match in the
\* order HevyApiError, ZodError, ValidationError, any other Error, non-Error,
\* and what it does is what the formatter of that class does.
C7_FirstMatchClassification ==
    Caught =>
        IF FirstMatch(caught).threw
        THEN pc = "threw" /\ escaped = FirstMatch(caught).error
        ELSE pc = "returned" /\ result = FirstMatch(caught).value

\* an upstream error, which is an Error too, got the upstream formatter
C7_Witness ==
    /\ Caught
    /\ IsA(caught, "HevyApiError")
    /\ caught.status = 404
    /\ pc = "returned"
    /\ Includes(result.content[1].text, "(x) Resource not found")
    /\ Includes(result.content[1].text, "Verify the resource ID exists")

\* C8: for every thrown value handleError returns a result of the same shape:
\* content with exactly one text item, and isError = true.
C8_UniformErrorShape ==
    Caught =>
        /\ pc = "returned"
        /\ DOMAIN result = {"content", "isError"}
        /\ Len(result.content) = 1
        /\ result.content[1].type = "text"
        /\ result.isError = TRUE

\* the workout of the invocation has well-formed timestamps, and its end_time
\* is not after its start_time
EndNotAfterStart ==
    /\ pc # "idle"
    /\ call.tool \in WorkoutTools
    /\ ~validateISO8601Date(Get(call.args, "start_time"), "start_time").threw
    /\ ~validateISO8601Date(Get(call.args, "end_time"), "end_time").threw
    /\ DateLE(DateParse(Get(call.args, "end_time").v),
              DateParse(Get(call.args, "start_time").v))

\* C9: the failure of an end_time that is not after the start_time is
\* answered with the date-ordering checklist, not with the generic one.
C9_DateOrderingChecklist ==
    (EndNotAfterStart /\ Ended)
        => /\ pc = "returned"
           /\ Includes(result.content[1].text,
                       "Ensure endTime is later than startTime")
           /\ ~Includes(result.content[1].text,
                        "Review the error message for specific details")

\* the validator raised the failure of a rep_range whose start exceeds its end
RepRangeOrderFailure ==
    /\ CaughtValidationError
    /\ call.tool \in RoutineTools
    /\ Includes(caught.message,
                "rep_range.start cannot be greater than rep_range.end")

\* C10: the failure of a rep_range whose start is greater than its end is
\* answered with the rep-range-ordering checklist, not with the generic one.
C10_RepRangeChecklist ==
    RepRangeOrderFailure
        => /\ pc = "returned"
           /\ Includes(result.content[1].text,
                       "Ensure rep range start is less than or equal to end")
           /\ ~Includes(result.content[1].text,
                        "Review the error message for specific details")

----------------------------------------------------------------------------
(* Properties of the remediation checklists *)

\* the text of the returned result
ResultText == result.content[1].text

\* a ValidationError of a validating tool was answered
AnsweredValidationError == CaughtValidationError /\ pc = "returned"

\* the validator found an exercise without its title or its template id
ExerciseFieldFailure ==
    /\ AnsweredValidationError
    /\ call.tool \in WorkoutTools \cup RoutineTools
    /\ Includes(caught.message, "is missing required field")

\* the validator found a set without its type
SetTypeFailure ==
    /\ AnsweredValidationError
    /\ call.tool \in WorkoutTools \cup RoutineTools
    /\ Includes(caught.message, "type is required")

\* the validator found an exercise template with a blank title
TemplateTitleFailure ==
    /\ AnsweredValidationError
    /\ call.tool = "create_exercise_template"
    /\ Get(call.args, "title").t = "string"
    /\ Trim(Get(call.args, "title").v) = ""

\* C11: each domain ValidationError gets the checklist of its own category:
\* a missing exercise title or template id the exercise-field checklist, a
\* missing set type the set checklist, an empty exercise-template title the
\* title checklist; none of them gets the exercise-list-emptiness checklist.
C11_ChecklistOfOwnCategory ==
    /\ ExerciseFieldFailure
          => Includes(ResultText,
                      "Check that all required exercise fields are present")
    /\ SetTypeFailure
          => Includes(ResultText, "Include at least one set for each exercise")
    /\ TemplateTitleFailure => Includes(ResultText, "Provide a non-empty title")
    /\ (ExerciseFieldFailure \/ SetTypeFailure \/ TemplateTitleFailure)
          => ~Includes(ResultText,
                       "Include at least one exercise in your workout/routine")

\* the first line of the returned text is the headline h
Headline(h) ==
    /\ Len(ResultText) > Len(h)
    /\ SubSeq(ResultText, 1, Len(h) + 1) = h \o "\n"

\* an upstream failure with the status was answered
AnsweredStatus(status) ==
    CaughtHevyApiError /\ pc = "returned" /\ caught.status = status

\* the remediation checklist of the temporary upstream failures
TemporaryIssueChecklist ==
    /\ Includes(ResultText, "\n  - This is a temporary Hevy API issue\n")
    /\ Includes(ResultText, "\n  - Try again in a few moments\n")
    /\ Includes(ResultText, "\n  - If the problem persists, contact Hevy support")

\* C12 as stated: an upstream failure with status 500, 502 or 503 gets one
\* and the same headline (upstream temporarily unavailable) and one and the
\* same remediation checklist.
C12_SameHeadlineFor5xx ==
    \A status \in {500, 502, 503} :
        AnsweredStatus(status)
            => /\ Headline("(x) Hevy API is temporarily unavailable")
               /\ TemporaryIssueChecklist

\* C12, amended: 502 and 503 get the headline "Hevy API is temporarily
\* unavailable", 500 gets the headline "Hevy API error", and all three get
\* one and the same remediation checklist.
C12_HeadlinesFor5xx ==
    /\ \A status \in {502, 503} :
          AnsweredStatus(status)
              => Headline("(x) Hevy API is temporarily unavailable")
    /\ AnsweredStatus(500) => Headline("(x) Hevy API error")
    /\ \A status \in {500, 502, 503} :
          AnsweredStatus(status) => TemporaryIssueChecklist

C12_Witness ==
    /\ AnsweredStatus(500)
    /\ Headline("(x) Hevy API error")
    /\ TemporaryIssueChecklist
    /\ ~Includes(ResultText, "temporarily unavailable")


----------------------------------------------------------------------------
(* Properties of pagination *)

\* the listing tools with the maximum and the default page size the
\* specification gives each of them
ListingLimits ==
    [get_workouts           |-> [max |-> Num(10),  default |-> Num(10)],
     get_workout_events     |-> [max |-> Num(10),  default |-> Num(5)],
     get_routines           |-> [max |-> Num(10),  default |-> Num(5)],
     get_routine_folders    |-> [max |-> Num(10),  default |-> Num(10)],
     get_exercise_templates |-> [max |-> Num(100), default |-> Num(20)]]

\* the page and the page size of the invocation are numbers within the bounds
PageChecked(max) ==
    /\ Get(call.args, "page").t = "number"
    /\ Get(call.args, "page").v >= Num(1).v
    /\ Get(call.args, "page_size").t = "number"
    /\ Get(call.args, "page_size").v >= Num(1).v
    /\ Get(call.args, "page_size").v <= max.v

\* C13: every listing tool (workouts, workout events, routines, routine
\* folders, exercise templates) issues its upstream request only for a page
\* >= 1 and a page size between 1 and its maximum (10, 10, 10, 10, 100), and
\* an invocation with its default page size (10, 5, 5, 10, 20) is not
\* rejected by that check.
C13_ListingToolsCheckPagination ==
    \A tool \in DOMAIN ListingLimits :
        (pc # "idle" /\ call.tool = tool)
            => /\ requests # <<>> => PageChecked(ListingLimits[tool].max)
               /\ PageChecked(ListingLimits[tool].default) => requests # <<>>

----------------------------------------------------------------------------
(* The validators and the transforms on their own: each function of
   lib/transforms.ts applied to arguments, as the unit tests call them *)

\* a call of the function fn with the arguments args completes with outcome:
\* it returns a value or throws
Apply(fn, args, outcome) ==
    /\ pc = "idle"
    /\ call' = [tool |-> fn, args |-> args]
    /\ IF outcome.threw
       THEN pc' = "threw" /\ escaped' = outcome.error /\ result' = None
       ELSE pc' = "returned" /\ escaped' = None /\ result' = outcome.value
    /\ caught' = None
    /\ UNCHANGED <<ran, requests>>
    /\ UNCHANGED authVars

\* page numbers and page sizes, whole and fractional, around the bounds
PageNumbers == {Tenths(n) : n \in {-10, 0, 5, 10, 15, 20}}

PageSizeNumbers == {Tenths(n) : n \in {-10, 0, 5, 10, 50, 100, 105, 110, 1000, 1010}}

MaxPageSizes == {PAGINATION_LIMITS.WORKOUTS, PAGINATION_LIMITS.EXERCISE_TEMPLATES}

validatePaginationCall ==
    /\ pc = "idle"
    /\ \E page \in PageNumbers, pageSize \in PageSizeNumbers,
          maxPageSize \in MaxPageSizes :
          Apply("validatePagination",
                [page |-> page, pageSize |-> pageSize, maxPageSize |-> maxPageSize],
                validatePagination(page, pageSize, maxPageSize))

\* timestamps of equal instants in different forms, a millisecond apart,
\* across a zone offset, and on a day past the end of its month
FunctionTimePairs ==
    TimePairs
    \cup {<<"2024-01-15T12:00:00+02:00", "2024-01-15T10:00:00Z">>,
          <<"2024-01-15T10:00:00Z", "2024-01-15T10:00:00.001Z">>,
          <<"2024-01-15T10:00:00.5Z", "2024-01-15T10:00:00.500Z">>,
          <<"2024-01-15", "2024-01-15T00:00:00Z">>,
          <<"2024-01-15", "2024-01-16">>,
          <<"2024-01-15T23:30:00-01:00", "2024-01-16T00:00:00Z">>,
          <<"2024-01-15T23:30:00+01:00", "2024-01-15T22:30:01Z">>,
          <<"2024-02-29T23:59:59Z", "2024-03-01T00:00:00Z">>,
          <<"2024-02-30T10:00:00Z", "2024-03-01T09:00:00Z">>,
          <<"2023-12-31T23:59:59.999Z", "2024-01-01T00:00:00Z">>}

\* sets and exercises with more than one defect each
DefectiveSets ==
    {Obj([type |-> Str(""), rpe |-> Num(11), weight_kg |-> Num(-10)]),
     Obj([type |-> Str("bogus"), rpe |-> Num(5), reps |-> Num(-1)]),
     Obj([type |-> Str("normal"), rpe |-> Num(11), weight_kg |-> Num(-10)]),
     Obj([type |-> Str("normal"), rpe |-> Num(8), weight_kg |-> Num(-10),
          reps |-> Num(-1)]),
     Obj([type |-> Str("normal"), weight_kg |-> Num(100),
          distance_meters |-> Num(-5), duration_seconds |-> Num(-5)])}

DefectiveExercises ==
    {WorkoutExercise("", "", <<>>),
     WorkoutExercise("Squat", "", <<>>),
     WorkoutExercise("", "abc", <<WorkoutSets.noType>>)}
    \cup {WorkoutExercise("Squat", "abc", <<set>>) : set \in DefectiveSets}
    \cup {WorkoutExercise("Squat", "abc", <<WorkoutSets.ok, set>>) :
             set \in DefectiveSets}
    \cup {WorkoutExercise("Squat", "abc", <<WorkoutSets.negCustom, WorkoutSets.noType>>)}

\* the workouts the validator and the transform are applied to: those of the
\* tools, every pair of timestamps with a defective exercise, and lists of
\* defective exercises
FunctionWorkouts ==
    Workouts
    \cup {Workout("Leg Day", times, exercises) :
             times \in FunctionTimePairs,
             exercises \in {<<>>, <<WorkoutExercise("Squat", "abc", <<WorkoutSets.ok>>)>>,
                            <<WorkoutExercise("Squat", "abc",
                                  <<WorkoutSets.badRpeNeg>>)>>}}
    \cup {Workout("Leg Day", <<"2024-01-15T10:00:00Z", "2024-01-15T11:00:00Z">>,
                  <<e>>) : e \in DefectiveExercises}
    \cup {Workout("Leg Day", <<"2024-01-15T10:00:00Z", "2024-01-15T11:00:00Z">>,
                  <<WorkoutExercise("Squat", "abc", <<WorkoutSets.ok>>), e>>) :
             e \in DefectiveExercises}
    \cup {Workout("Leg Day", <<"2024-01-15T10:00:00Z", "2024-01-15T11:00:00Z">>,
                  <<e, WorkoutExercise("", "", <<>>)>>) :
             e \in DefectiveExercises}

validateWorkoutDataCall ==
    /\ pc = "idle"
    /\ \E workout \in FunctionWorkouts :
          Apply("validateWorkoutData", workout, validateWorkoutData(workout))

\* a set, an exercise and a workout as a read returns them: with the
\* positional index and the identifiers the server adds
EchoedSet(set, index) == Obj([index |-> Num(index)] @@ set.v)

EchoedExercise(ex, index) ==
    Obj([index |-> Num(index), id |-> Str("exercise-456"),
         sets |-> Arr([j \in 1..Len(Get(ex, "sets").v) |->
                         EchoedSet(Get(ex, "sets").v[j], j - 1)])] @@ ex.v)

EchoedWorkout(workout) ==
    Obj([id |-> Str("workout-123"), created_at |-> Str("2024-01-15T11:05:00Z"),
         exercises |-> Arr([i \in 1..Len(Get(workout, "exercises").v) |->
                         EchoedExercise(Get(workout, "exercises").v[i], i - 1)])]
        @@ workout.v)

\* the values an optional text field is given: null, empty, blank, a text
OptionalTexts == {Null, Str(""), Str(" \t "), Str("Focus on form")}

\* a workout whose optional fields are all given the value of blank, or are
\* all left out
OptionalFieldWorkouts ==
    {Obj([title |-> Str("Leg Day"), description |-> text, routine_id |-> text,
          start_time |-> Str("2024-01-15T10:00:00Z"),
          end_time |-> Str("2024-01-15T11:00:00Z"), is_private |-> Bool(FALSE),
          exercises |-> Arr(<<
              Obj([title |-> Str("Squat"), exercise_template_id |-> Str("abc"),
                   superset_id |-> number, notes |-> text,
                   sets |-> Arr(<<
                       Obj([type |-> Str("normal"), weight_kg |-> number,
                            reps |-> Num(10), distance_meters |-> number,
                            duration_seconds |-> Null, custom_metric |-> number,
                            rpe |-> rpe])>>)])>>)]) :
        text \in OptionalTexts, number \in {Null, Num(0), Num(100)},
        rpe \in {Null, Num(8)}}

\* the workouts the transform is applied to, as typed in and as read back
TransformWorkouts ==
    FunctionWorkouts \cup {EchoedWorkout(workout) : workout \in Workouts}
    \cup OptionalFieldWorkouts

transformWorkoutToAPICall ==
    /\ pc = "idle"
    /\ \E workout \in TransformWorkouts :
          Apply("transformWorkoutToAPI", workout,
                Return(transformWorkoutToAPI(workout)))

\* routines whose optional fields are null, empty, blank, or given
OptionalFieldRoutines ==
    {Obj([title |-> Str("Push Day"), notes |-> text, folder_id |-> folder,
          exercises |-> Arr(<<
              Obj([exercise_template_id |-> Str("abc"), superset_id |-> folder,
                   rest_seconds |-> folder, notes |-> text,
                   sets |-> Arr(<<
                       Obj([type |-> Str("normal"), weight_kg |-> folder,
                            reps |-> Null, rep_range |-> range])>>)])>>)]) :
        text \in OptionalTexts, folder \in {Null, Num(0), Num(1)},
        range \in {Null, Obj([start |-> Null, end |-> Num(12)]),
                   Obj([start |-> Num(8), end |-> Null]),
                   Obj([start |-> Num(8), end |-> Num(12)])}}

transformRoutineToAPICall ==
    /\ pc = "idle"
    /\ \E routine \in CreateRoutines \cup OptionalFieldRoutines :
          Apply("transformRoutineToAPI", routine,
                Return(transformRoutineToAPI(routine)))

transformExerciseTemplateToAPICall ==
    /\ pc = "idle"
    /\ \E template \in ExerciseTemplates :
          Apply("transformExerciseTemplateToAPI", template,
                Return(transformExerciseTemplateToAPI(template)))

transformRoutineFolderToAPICall ==
    /\ pc = "idle"
    /\ \E folder \in RoutineFolders :
          Apply("transformRoutineFolderToAPI", folder,
                Return(transformRoutineFolderToAPI(folder)))

\* HevyClient.request once its fetch has settled with an outcome
HevyClient_requestCall ==
    /\ pc = "idle"
    /\ \E o \in FetchOutcomes :
          Apply("HevyClient.request", o, RequestCompletion(o))

\* the effort ratings tried, in tenths, run from BelowZeroTenths under zero
\* to MaxRpeTenths
BelowZeroTenths == 10

MaxRpeTenths == 120

\* effort ratings in steps of a tenth
RpeNumbers == {Tenths(n) : n \in (0 - BelowZeroTenths)..MaxRpeTenths}

validateRPECall ==
    /\ pc = "idle"
    /\ \E rpe \in RpeNumbers : Apply("validateRPE", rpe, validateRPE(rpe))

NextFunctions ==
    \/ validatePaginationCall
    \/ validateRPECall
    \/ HevyClient_requestCall
    \/ validateWorkoutDataCall
    \/ transformWorkoutToAPICall
    \/ transformRoutineToAPICall
    \/ transformExerciseTemplateToAPICall
    \/ transformRoutineFolderToAPICall
    \/ NextInvocation

SpecFunctions == Init /\ [][NextFunctions]_vars

\* the call of the function fn has completed
Called(fn) == Ended /\ call.tool = fn

\* the call threw a ValidationError whose message contains text
ThrewValidationError(text) ==
    /\ pc = "threw"
    /\ IsA(escaped, "ValidationError")
    /\ Includes(escaped.message, text)

\* C14: validatePagination succeeds exactly when page >= 1 and 1 <= pageSize
\* <= maxPageSize; otherwise it raises a ValidationError for the first
\* failing check in the order page < 1, pageSize < 1, pageSize > maxPageSize,
\* whose message names that bound and the offending value.
C14_PaginationFirstFailingCheck ==
    Called("validatePagination") =>
        LET page == call.args.page.v
            pageSize == call.args.pageSize.v
            maxPageSize == call.args.maxPageSize.v
        IN  /\ pc = "returned"
                <=> (page >= 10 /\ pageSize >= 10 /\ pageSize <= maxPageSize)
            /\ page < 10
                => ThrewValidationError("Page must be 1 or greater, got "
                                        \o NumStr(call.args.page))
            /\ (page >= 10 /\ pageSize < 10)
                => ThrewValidationError("Page size must be at least 1, got "
                                        \o NumStr(call.args.pageSize))
            /\ (page >= 10 /\ pageSize >= 10 /\ pageSize > maxPageSize)
                => ThrewValidationError(
                       "Page size cannot exceed "
                       \o NumStr(call.args.maxPageSize) \o ", got "
                       \o NumStr(call.args.pageSize))

\* a page below 1 together with a page size above the maximum: the page is
\* the violation reported
C14_Witness ==
    /\ Called("validatePagination")
    /\ call.args.page.v < 10
    /\ call.args.pageSize.v > call.args.maxPageSize.v
    /\ ThrewValidationError("Page must be 1 or greater")
    /\ ~Includes(escaped.message, "Page size")

----------------------------------------------------------------------------
(* Properties of the workout validator *)

\* the number of days of month mo of year y in the calendar
DaysInMonth(y, mo) ==
    CASE mo \in {4, 6, 9, 11} -> 30
      [] mo = 2 -> IF (y % 4 = 0 /\ y % 100 # 0) \/ y % 400 = 0 THEN 29 ELSE 28
      [] OTHER -> 31

\* s is a well-formed timestamp that names a day of the calendar
CalendarTimestamp(s) ==
    /\ iso8601Pattern(s)
    /\ DateParse(s).valid
    /\ DigitsValue(s, 9, 10)
          <= DaysInMonth(DigitsValue(s, 1, 4), DigitsValue(s, 6, 7))

\* C15: the timestamp validator rejects every malformed string and every
\* invalid calendar date (month 13, 30 February), so a workout with such a
\* start_time or end_time is never sent upstream.
C15_InvalidTimestampNeverSent ==
    \A r \in RequestsOf(WorkoutTools) :
        /\ Get(call.args, "start_time").t = "string"
        /\ CalendarTimestamp(Get(call.args, "start_time").v)
        /\ Get(call.args, "end_time").t = "string"
        /\ CalendarTimestamp(Get(call.args, "end_time").v)

\* the days of a year before the first of each month
DaysBeforeMonth == <<0, 31, 59, 90, 120, 151, 181, 212, 243, 273, 304, 334>>

IsLeapYear(y) == (y % 4 = 0 /\ y % 100 # 0) \/ y % 400 = 0

\* the leap days of the years before year y
LeapDaysBefore(y) == (y - 1) \div 4 - (y - 1) \div 100 + (y - 1) \div 400

\* the position of the zone designator of a timestamp with a time
ZoneAt(s) ==
    CHOOSE p \in 20..(Len(s) + 1) :
        /\ p = Len(s) + 1 \/ At(s, p) \in {"Z", "+", "-"}
        /\ \A q \in 20..(p - 1) : At(s, q) \notin {"Z", "+", "-"}

\* the milliseconds of the fraction of a timestamp (".5" is 500)
FractionMs(s) ==
    LET n == ZoneAt(s) - 21
    IN  IF n <= 0 THEN 0
        ELSE DigitsValue(s, 21, 20 + n)
                 * (CASE n = 1 -> 100 [] n = 2 -> 10 [] OTHER -> 1)

\* the minutes a timestamp's zone is ahead of UTC
OffsetMinutes(s) ==
    LET p == ZoneAt(s)
    IN  IF At(s, p) \in {"+", "-"}
        THEN (IF At(s, p) = "-" THEN 0 - 1 ELSE 1)
                 * (DigitsValue(s, p + 1, p + 2) * 60 + DigitsValue(s, p + 4, p + 5))
        ELSE 0

\* the instant a well-formed timestamp denotes, counted from its fields:
\* <<days since 1970-01-01, milliseconds of that day>> in UTC, a day number
\* past the end of the month counting on into the next month
Instant(s) ==
    LET y == DigitsValue(s, 1, 4)
        mo == DigitsValue(s, 6, 7)
        days == (y - 1970) * 365 + LeapDaysBefore(y) - LeapDaysBefore(1970)
                + DaysBeforeMonth[mo]
                + (IF IsLeapYear(y) /\ mo > 2 THEN 1 ELSE 0)
                + DigitsValue(s, 9, 10) - 1
        ms == IF Len(s) = 10 THEN 0
              ELSE (DigitsValue(s, 12, 13) * 60 + DigitsValue(s, 15, 16)
                    - OffsetMinutes(s)) * 60000
                   + DigitsValue(s, 18, 19) * 1000 + FractionMs(s)
    IN  <<days + ms \div MsPerDay, ms % MsPerDay>>

\* instant b is strictly later than instant a
Later(b, a) == b[1] > a[1] \/ (b[1] = a[1] /\ b[2] > a[2])

\* the call of validateWorkoutData was given timestamps that both pass
\* validateISO8601Date
TimestampsWellFormed ==
    /\ Called("validateWorkoutData")
    /\ ~validateISO8601Date(Get(call.args, "start_time"), "start_time").threw
    /\ ~validateISO8601Date(Get(call.args, "end_time"), "end_time").threw

\* C16: for a start_time and an end_time that both pass the ISO 8601 check,
\* the date checks of validateWorkoutData pass exactly when the end is an
\* instant strictly later than the start; equal instants are rejected.
C16_EndStrictlyAfterStart ==
    TimestampsWellFormed
        => (~ThrewValidationError("end_time must be after start_time")
              <=> Later(Instant(Get(call.args, "end_time").v),
                        Instant(Get(call.args, "start_time").v)))

\* one instant written in two zones is rejected
C16_Witness ==
    /\ TimestampsWellFormed
    /\ Get(call.args, "start_time").v = "2024-01-15T10:00:00Z"
    /\ Get(call.args, "end_time").v = "2024-01-15T12:00:00+02:00"
    /\ ThrewValidationError("end_time must be after start_time")

\* the concatenation of the sequences ss[i], ss[i + 1], ...
RECURSIVE Flatten(_, _)
Flatten(ss, i) == IF i > Len(ss) THEN <<>> ELSE ss[i] \o Flatten(ss, i + 1)

\* <<text>> if the condition holds, else nothing
If(condition, text) == IF condition THEN <<text>> ELSE <<>>

\* every violation of set setIndex of exercise index, in the order type, rpe,
\* numeric metrics as declared
SetViolations(index, setIndex, set) ==
    LET at == "Exercise " \o ToString(index) \o ", Set " \o ToString(setIndex) \o ": "
        type == Get(set, "type")
        rpe == Get(set, "rpe")
        negative(field) ==
            /\ Get(set, field).t = "number"
            /\ Get(set, field).v < 0
    IN  If(type.t # "string" \/ type.v = "", at \o "type is required")
        \o If(type.t = "string" /\ type.v # ""
                 /\ type.v \notin {"warmup", "normal", "failure", "dropset"},
              at \o "Invalid set type")
        \o If(rpe.t \notin {"null", "undefined"}
                 /\ ~(rpe.t = "number" /\ rpe.v \in {60, 70, 75, 80, 85, 90, 95, 100}),
              at \o "RPE must be one of")
        \o If(negative("weight_kg"), at \o "weight_kg cannot be negative")
        \o If(negative("reps"), at \o "reps cannot be negative")
        \o If(negative("distance_meters"), at \o "distance_meters cannot be negative")
        \o If(negative("duration_seconds"),
              at \o "duration_seconds cannot be negative")
        \o If(negative("custom_metric"), at \o "custom_metric cannot be negative")

\* every violation of exercise index, in the order title, template id, set
\* list, sets
ExerciseViolations(index, exercise) ==
    LET at == "Exercise at index " \o ToString(index)
        sets == Get(exercise, "sets").v
    IN  If(Get(exercise, "title").v = "", at \o " is missing required field: title")
        \o If(Get(exercise, "exercise_template_id").v = "",
              at \o " is missing required field: exercise_template_id")
        \o If(sets = <<>>, at \o " must have at least one set")
        \o Flatten([j \in 1..Len(sets) |-> SetViolations(index, j - 1, sets[j])], 1)

\* every violation of a workout, in the order the validator is specified to
\* look for them
WorkoutViolations(workout) ==
    LET start == Get(workout, "start_time").v
        end == Get(workout, "end_time").v
        exercises == Get(workout, "exercises").v
        wellFormed(s) == iso8601Pattern(s) /\ DateParse(s).valid
    IN  If(~iso8601Pattern(start), "start_time must be in ISO 8601 format")
        \o If(iso8601Pattern(start) /\ ~DateParse(start).valid,
              "start_time is not a valid date")
        \o If(~iso8601Pattern(end), "end_time must be in ISO 8601 format")
        \o If(iso8601Pattern(end) /\ ~DateParse(end).valid,
              "end_time is not a valid date")
        \o If(wellFormed(start) /\ wellFormed(end)
                 /\ ~Later(Instant(end), Instant(start)),
              "end_time must be after start_time")
        \o If(exercises = <<>>, "At least one exercise is required")
        \o Flatten([i \in 1..Len(exercises) |->
                       ExerciseViolations(i - 1, exercises[i])], 1)

\* C17: validateWorkoutData raises exactly one ValidationError, for the first
\* violation in the order start_time format, end_time format, end after
\* start, exercise list not empty, then each exercise in order (title,
\* template id, set list not empty, then each set: type, rpe, numeric metrics
\* as declared), and returns when there is no violation.
C17_FirstViolationReported ==
    Called("validateWorkoutData") =>
        /\ pc = "returned" <=> WorkoutViolations(call.args) = <<>>
        /\ WorkoutViolations(call.args) # <<>>
              => ThrewValidationError(WorkoutViolations(call.args)[1])

\* a bad date range together with a negative weight reports the date range
C17_Witness ==
    /\ Called("validateWorkoutData")
    /\ Len(WorkoutViolations(call.args)) >= 3
    /\ WorkoutViolations(call.args)[1] = "end_time must be after start_time"
    /\ \E k \in 2..Len(WorkoutViolations(call.args)) :
          WorkoutViolations(call.args)[k]
              = "Exercise 0, Set 0: weight_kg cannot be negative"
    /\ ThrewValidationError("end_time must be after start_time")

\* a defect in a later set of the first exercise is reported before the
\* missing title of the second exercise
C17_WitnessLaterExercise ==
    /\ Called("validateWorkoutData")
    /\ Len(WorkoutViolations(call.args)) >= 4
    /\ ThrewValidationError("Exercise 0, Set 1: ")
    /\ Get(call.args.v.exercises.v[2], "title").v = ""

----------------------------------------------------------------------------
(* Properties of the transforms *)

\* the keys of the object o
Keys(o) == IF o.t = "object" THEN DOMAIN o.v ELSE {}

\* the fields a read adds to a workout, an exercise or a set
EchoedKeys == {"index", "id", "created_at"}

\* the workout was read back: it, its exercises and its sets carry the
\* fields a read adds
ReadBack(workout) ==
    /\ "id" \in Keys(workout)
    /\ Get(workout, "exercises").v # <<>>
    /\ \A i \in 1..Len(Get(workout, "exercises").v) :
          LET ex == Get(workout, "exercises").v[i]
          IN  /\ {"index", "id"} \subseteq Keys(ex)
              /\ \A j \in 1..Len(Get(ex, "sets").v) :
                    "index" \in Keys(Get(ex, "sets").v[j])

\* no field a read adds is left on the workout, its exercises or its sets
NothingEchoed(workout) ==
    /\ Keys(workout) \cap EchoedKeys = {}
    /\ \A i \in 1..Len(Get(workout, "exercises").v) :
          LET ex == Get(workout, "exercises").v[i]
          IN  /\ Keys(ex) \cap EchoedKeys = {}
              /\ \A j \in 1..Len(Get(ex, "sets").v) :
                    Keys(Get(ex, "sets").v[j]) \cap EchoedKeys = {}

\* transformWorkoutToAPI was applied to a valid workout that was read back
TransformedReadBack ==
    /\ Called("transformWorkoutToAPI")
    /\ ReadBack(call.args)
    /\ ~validateWorkoutData(call.args).threw

\* C18: transforming a workout that was read back with extra echoed fields
\* yields a payload without those fields, and validating and transforming
\* that payload again succeeds and returns the same payload (a fixed point).
C18_RoundTripFixedPoint ==
    TransformedReadBack
        => /\ NothingEchoed(result.v.workout)
           /\ ~validateWorkoutData(result.v.workout).threw
           /\ transformWorkoutToAPI(result.v.workout) = result

\* C18, amended: transforming a workout that was read back with extra echoed
\* fields yields a payload without those fields, and transforming that
\* payload again returns the same payload; validateWorkoutData does not
\* accept the payload, whose exercises no longer carry the title it requires.
C18_StrippedAndStable ==
    TransformedReadBack
        => /\ NothingEchoed(result.v.workout)
           /\ transformWorkoutToAPI(result.v.workout) = result
           /\ validateWorkoutData(result.v.workout)
                 = Throw(ValidationError(
                       "Exercise at index 0 is missing required field: title"))

C18_Witness ==
    /\ TransformedReadBack
    /\ pc = "returned"
    /\ Len(result.v.workout.v.exercises.v) = 2
    /\ Keys(result.v.workout.v.exercises.v[2]) = {"exercise_template_id", "sets"}
    /\ "notes" \in Keys(call.args.v.exercises.v[2])
    /\ NothingEchoed(result.v.workout)

\* the keys the upstream accepts on an exercise and on a set of a workout
ExerciseWhitelist == {"exercise_template_id", "superset_id", "notes", "sets"}

SetWhitelist ==
    {"type", "weight_kg", "reps", "distance_meters", "duration_seconds",
     "custom_metric", "rpe"}

\* C19: the output of transformWorkoutToAPI contains only whitelisted keys:
\* each exercise carries at most exercise_template_id, superset_id, notes and
\* sets, each set at most type, weight_kg, reps, distance_meters,
\* duration_seconds, custom_metric and rpe; a title, index, id or other extra
\* field of an input exercise or set never appears in the output.
C19_OnlyWhitelistedKeys ==
    Called("transformWorkoutToAPI") =>
        \A i \in 1..Len(result.v.workout.v.exercises.v) :
            LET ex == result.v.workout.v.exercises.v[i]
            IN  /\ Keys(ex) \subseteq ExerciseWhitelist
                /\ \A j \in 1..Len(ex.v.sets.v) :
                      Keys(ex.v.sets.v[j]) \subseteq SetWhitelist

\* an exercise given with title, index and id and a set given with index
\* were transformed
C19_Witness ==
    /\ Called("transformWorkoutToAPI")
    /\ Len(call.args.v.exercises.v) >= 1
    /\ {"title", "index", "id"} \subseteq Keys(call.args.v.exercises.v[1])
    /\ Len(call.args.v.exercises.v[1].v.sets.v) >= 1
    /\ "index" \in Keys(call.args.v.exercises.v[1].v.sets.v[1])
    /\ Keys(result.v.workout.v.exercises.v[1]) = {"exercise_template_id", "sets"}
    /\ Keys(result.v.workout.v.exercises.v[1].v.sets.v[1])
          = {"type", "weight_kg", "reps"}

\* the optional fields of the entities, of their exercises, sets and rep ranges
OptionalFields ==
    {"description", "routine_id", "folder_id", "notes", "superset_id",
     "rest_seconds", "weight_kg", "reps", "distance_meters", "duration_seconds",
     "custom_metric", "rpe", "rep_range", "start", "end", "other_muscles"}

\* null, or an empty or whitespace-only string
Blank(x) == x.t = "null" \/ (x.t = "string" /\ Trim(x.v) = "")

\* the transforms of the four entities with the key their payload is wrapped in
EntityTransforms ==
    [transformWorkoutToAPI |-> "workout",
     transformRoutineToAPI |-> "routine",
     transformExerciseTemplateToAPI |-> "exercise",
     transformRoutineFolderToAPI |-> "routine_folder"]

\* every optional field that is blank in the object in is absent from the
\* object out, and so for the objects nested in both at the same place
RECURSIVE BlanksAbsent(_, _)
BlanksAbsent(in, out) ==
    /\ \A k \in Keys(in) \cap OptionalFields : Blank(in.v[k]) => k \notin Keys(out)
    /\ \A k \in Keys(in) \cap Keys(out) :
          CASE in.v[k].t = "array" /\ out.v[k].t = "array" ->
                 \A i \in 1..Len(out.v[k].v) :
                     BlanksAbsent(in.v[k].v[i], out.v[k].v[i])
            [] in.v[k].t = "object" /\ out.v[k].t = "object" ->
                 BlanksAbsent(in.v[k], out.v[k])
            [] OTHER -> TRUE

\* the blank optional fields of the object and of the objects nested in it
RECURSIVE BlankFields(_)
BlankFields(in) ==
    {k \in Keys(in) \cap OptionalFields : Blank(in.v[k])}
    \cup UNION {CASE in.v[k].t = "array" ->
                       UNION {BlankFields(in.v[k].v[i]) : i \in 1..Len(in.v[k].v)}
                  [] in.v[k].t = "object" -> BlankFields(in.v[k])
                  [] OTHER -> {} : k \in Keys(in)}

C20_WitnessWorkout ==
    /\ Called("transformWorkoutToAPI")
    /\ {"description", "routine_id", "notes", "superset_id", "weight_kg", "rpe"}
          \subseteq BlankFields(call.args)
    /\ "description" \notin Keys(result.v.workout)

\* the body of a request is the routine envelope with a folder_id
SendsFolder(r) == "folder_id" \in Keys(Get(r.body, "routine"))

C21_WitnessCreate ==
    /\ pc = "awaiting"
    /\ call.tool = "create_routine"
    /\ \E r \in RequestsOf({"create_routine"}) :
          SendsFolder(r) /\ Get(r.body, "routine").v.folder_id = Num(1)

----------------------------------------------------------------------------
(* Properties of the upstream client *)

\* the call of HevyClient.request whose fetch was answered with a response
Answered == Called("HevyClient.request") /\ call.args.kind = "response"

\* C22: the upstream client returns the parsed body for a 2xx response and,
\* for every non-2xx response, raises a HevyApiError whose status equals the
\* response status and whose data is the response body; no non-2xx response
\* is returned as a success or raised as another error type.
C22_NonOkRaisesHevyApiError ==
    Answered =>
        /\ (ResponseOk(call.args.status) /\ call.args.parses)
              => (pc = "returned" /\ result = call.args.data)
        /\ ~ResponseOk(call.args.status)
              => /\ pc = "threw"
                 /\ IsA(escaped, "HevyApiError")
                 /\ escaped.status = call.args.status
                 /\ escaped.data = call.args.data

----------------------------------------------------------------------------
(* Properties of the effort rating *)

\* the ratings 6, 7, 7.5, 8, 8.5, 9, 9.5 and 10, in tenths
AllowedRatings == {60, 70, 75, 80, 85, 90, 95, 100}

\* C23: validateRPE succeeds exactly for the values 6, 7, 7.5, 8, 8.5, 9, 9.5
\* and 10 and raises a ValidationError for every other number, including
\* 6.5, 11 and 5.
C23_RpeClosedSet ==
    Called("validateRPE") =>
        /\ pc = "returned" <=> call.args.v \in AllowedRatings
        /\ call.args.v \notin AllowedRatings
              => ThrewValidationError("RPE must be one of: 6, 7, 7.5, 8, 8.5, 9, 9.5, 10")

\* 6.5 lies between two allowed values and is rejected
C23_Witness ==
    /\ Called("validateRPE")
    /\ call.args.v = 65
    /\ ThrewValidationError("Got 6.5")
----------------------------------------------------------------------------
(* The OAuth front end (github-handler.ts, middleware/auth.ts,             *)
(* lib/key-storage.ts) and the agent instance behind /mcp.                 *)
(*                                                                         *)
(* OAUTH_KV is a function from the keys that exist to their values.  A     *)
(* handler runs without interruption between two awaits; POST /token and   *)
(* POST /api/save-key are split at their awaits, so that other requests    *)
(* are served between their steps.  `reply` is the response sent by the    *)
(* last step, or None when that step sent none.  `hist` records what was   *)
(* bound to each authorization code, how many access tokens each code      *)
(* yielded, and the sessions whose logout has completed.                   *)

\* GitHub accounts
Logins == {"alice", "bob"}

\* what requests present as client_id and as redirect_uri
ClientIds == {"app1", "app2"}

RedirectUris == {"https://app1.example/cb", "https://app2.example/cb"}

\* what the requests to /authorize present: a client with its own
\* redirect_uri, or no client_id
AuthorizeQueries ==
    {[clientId |-> "app1", redirectUri |-> "https://app1.example/cb"],
     [clientId |-> "app2", redirectUri |-> "https://app2.example/cb"]}

\* the Hevy API keys users submit
ApiKeys == {"key-a", "key-b"}

\* sessions created and authorization codes issued in one behaviour
MaxSessions == 2

MaxCodes == 2

\* generateState(): 16 random bytes in hex, here the n-th value drawn for
\* the purpose: a state for GitHub, a session token, an authorization code
generateState(purpose, n) == purpose \o "-" \o ToString(n)

\* the values drawn so far for the purpose
Drawn(purpose) == {generateState(purpose, n) : n \in 1..nonce[purpose]}

\* the next value drawn for the purpose, and the draws after it
Draw(purpose) == generateState(purpose, nonce[purpose] + 1)

After(draws, purpose) == [draws EXCEPT ![purpose] = @ + 1]

\* a code can still be issued; a login can still be started, each login
\* drawing one state value and one session token
CodeLeft == nonce.code < MaxCodes

LoginLeft == nonce.state < MaxSessions

SessionLeft == nonce.session < MaxSessions

\* the session tokens requests present: those of the sessions that exist,
\* those of the sessions logged out, and one that was never issued
SessionTokens ==
    {token \in Drawn("session") : ("session:" \o token) \in DOMAIN kv}
    \cup hist.loggedOut \cup {"forged"}

\* the authorization codes requests present: every code issued so far and
\* one that was never issued
AuthCodes == DOMAIN hist.bound \cup {"forged"}

\* the state values GitHub's redirect to /callback carries: those that are
\* pending and one that was never issued
CallbackStates ==
    {state \in Drawn("state") : ("oauth_state:" \o state) \in DOMAIN kv}
    \cup {"forged"}

\* kv.put(key, value) and kv.delete(key) applied to the namespace store
KVPut(store, key, value) ==
    [k \in DOMAIN store \cup {key} |-> IF k = key THEN value ELSE store[k]]

KVDelete(store, key) == [k \in DOMAIN store \ {key} |-> store[k]]

\* kv.get(key, "json"): the parsed value, or null when the key is absent
KVGetJson(key) == IF key \in DOMAIN kv THEN kv[key].json ELSE Null

\* the session object GET /callback stores for a GitHub user
SessionData(login) ==
    [t |-> "object", login |-> login, name |-> login, email |-> "",
     accessToken |-> "gho_" \o login, baseUrl |-> "https://mcp.example"]

\* the Authorization headers of the requests to /mcp and /sse
AuthorizationHeaders ==
    {None, Str("Bearer"), Str("Bearer ")}
    \cup {Str("Bearer " \o token) : token \in SessionTokens}
    \cup {Str(scheme \o token) :
            scheme \in {"bearer ", "Basic "},
            token \in {t \in Drawn("session") :
                          ("session:" \o t) \in DOMAIN kv}}

\* authHeader.startsWith("Bearer ")
StartsWithBearer(authHeader) ==
    /\ Len(authHeader) >= 7
    /\ SubSeq(authHeader, 1, 7) = "Bearer "

\* bearerAuth skipping the prefix test
bearerAuth_AnyScheme(authHeader) ==
    LET token == IF authHeader.t = "none" \/ Len(authHeader.v) < 7 THEN ""
                 ELSE SubSeq(authHeader.v, 8, Len(authHeader.v))
        sessionData == KVGetJson("session:" \o token)
    IN  IF authHeader.t = "none" \/ Len(authHeader.v) < 7
           \/ sessionData.t # "object"
        THEN [status |-> 401, next |-> FALSE, props |-> None]
        ELSE [status |-> 200, next |-> TRUE, props |-> sessionData]

\* bearerAuth: 401 without calling next, or props set and next called
bearerAuth(authHeader) ==
    IF authHeader.t = "none" \/ ~StartsWithBearer(authHeader.v)
    THEN [status |-> 401, next |-> FALSE, props |-> None,
          error |-> "unauthorized",
          message |-> "Authentication required. Please provide a valid Bearer token."]
    ELSE LET token == SubSeq(authHeader.v, 8, Len(authHeader.v))
             sessionData == KVGetJson("session:" \o token)
         IN  IF sessionData.t # "object"
             THEN [status |-> 401, next |-> FALSE, props |-> None,
                   error |-> "unauthorized", message |-> "Invalid token."]
             ELSE [status |-> 200, next |-> TRUE, props |-> sessionData,
                   error |-> "", message |-> ""]

\* encryptApiKey / decryptApiKey under COOKIE_ENCRYPTION_KEY
encryptApiKey(apiKey) == [aesgcm |-> apiKey]

\* getUserApiKey reading the key of the first account that has one
getUserApiKey_AnyLogin(store, username) ==
    IF \E l \in Logins : ("hevy_key:" \o l) \in DOMAIN store
    THEN Str(store["hevy_key:" \o
                   (CHOOSE l \in Logins : ("hevy_key:" \o l) \in DOMAIN store)].aesgcm)
    ELSE Null

\* getUserApiKey: the decrypted key of hevy_key:{username}, or null
getUserApiKey(store, username) ==
    IF ("hevy_key:" \o username) \in DOMAIN store
    THEN Str(store["hevy_key:" \o username].aesgcm)
    ELSE Null

\* MyMCP.init with the props of the request: the instance with its client,
\* or None when init throws
MyMCP_init(props) ==
    IF props.t = "none" \/ getUserApiKey(kv, props.login).t = "null"
    THEN None
    ELSE [t |-> "agent", props |-> props,
          apiKey |-> getUserApiKey(kv, props.login).v]

\* a request to /mcp or /sse: bearerAuth, then the route hands the props to
\* the MCP handler, which starts the agent instance of a new MCP session;
\* late tells that the request presents the token of a session whose
\* logout has completed
McpRequest ==
    /\ \E authHeader \in AuthorizationHeaders :
          LET auth == bearerAuth(authHeader)
          IN  /\ reply' = [t |-> "reply", route |-> "mcp",
                           status |-> auth.status, next |-> auth.next,
                           authHeader |-> IF auth.next THEN authHeader ELSE None,
                           props |-> auth.props,
                           late |-> \E token \in hist.loggedOut :
                                       authHeader = Str("Bearer " \o token)]
              /\ agent' = IF auth.next THEN MyMCP_init(auth.props) ELSE agent
    /\ UNCHANGED <<kv, nonce, flight, hist>>
    /\ UNCHANGED toolVars

\* a tool of the running instance calls this.client.request: fetch is called
\* with the api-key header of the client
AgentFetch ==
    /\ agent.t # "none"
    /\ reply' = [t |-> "fetch", login |-> agent.props.login,
                 api_key |-> agent.apiKey]
    /\ UNCHANGED <<kv, nonce, flight, hist, agent>>
    /\ UNCHANGED toolVars

\* the MCP session ends and its instance is discarded
AgentEnds ==
    /\ agent.t # "none"
    /\ agent' = None
    /\ reply' = None
    /\ UNCHANGED <<kv, nonce, flight, hist>>
    /\ UNCHANGED toolVars

\* clientIdAlreadyApproved: the value of approval:{username}:{clientId}
\* is "true"
clientIdAlreadyApproved(store, username, clientId) ==
    LET key == "approval:" \o username \o ":" \o clientId
    IN  key \in DOMAIN store /\ store[key] = "true"

\* storeClientApproval
storeClientApproval(store, username, clientId) ==
    KVPut(store, "approval:" \o username \o ":" \o clientId, "true")

\* the session of the request's cookie when it is an object with a login:
\* sessionToken is the value the cookie pattern matched, "" when none
getAuthenticatedSession(sessionToken) ==
    IF sessionToken = "" THEN Null ELSE KVGetJson("session:" \o sessionToken)

\* a handler that runs to its response without an await in between: it
\* sends response and leaves the namespace, the draws and the history so
Exchange(response, store, drawn, history) ==
    /\ reply' = [t |-> "reply"] @@ response
    /\ kv' = store
    /\ nonce' = drawn
    /\ hist' = history
    /\ UNCHANGED <<flight, agent>>
    /\ UNCHANGED toolVars

\* authcode:{authCode} is put with what it is bound to
IssueCode(store, authCode, clientId, redirectUri, sessionToken) ==
    KVPut(store, "authcode:" \o authCode,
          JSON_stringify([t |-> "object", clientId |-> clientId,
                          redirectUri |-> redirectUri,
                          sessionToken |-> sessionToken]))

\* the history once authCode is bound
Bound(authCode, clientId, redirectUri, sessionToken) ==
    [hist EXCEPT !.bound =
        KVPut(@, authCode, [clientId |-> clientId, redirectUri |-> redirectUri,
                            sessionToken |-> sessionToken])]

\* GET /authorize
GetAuthorize ==
    /\ \E query \in AuthorizeQueries \cup {[clientId |-> "", redirectUri |-> ""]},
          sessionToken \in SessionTokens \cup {""} :
          LET request == [route |-> "GET /authorize"]
              clientId == query.clientId
              redirectUri == query.redirectUri
              sessionData == getAuthenticatedSession(sessionToken)
              authCode == Draw("code")
              githubState == Draw("state")
          IN  IF clientId = ""
              THEN Exchange(request @@ [status |-> 400], kv, nonce, hist)
              ELSE IF sessionData.t = "object"
              THEN IF clientIdAlreadyApproved(kv, sessionData.login, clientId)
                   THEN /\ CodeLeft
                        /\ Exchange(request @@ [status |-> 302,
                                                code |-> authCode],
                                    IssueCode(kv, authCode, clientId,
                                              redirectUri, sessionToken),
                                    After(nonce, "code"),
                                    Bound(authCode, clientId, redirectUri,
                                          sessionToken))
                   ELSE Exchange(request @@ [status |-> 200],
                                 kv, nonce, hist)
              ELSE /\ LoginLeft
                   /\ Exchange(request @@ [status |-> 302],
                               KVPut(kv, "oauth_state:" \o githubState,
                                     JSON_stringify([t |-> "object",
                                                     clientId |-> clientId,
                                                     redirectUri |-> redirectUri])),
                               After(nonce, "state"), hist)

\* parseRedirectApproval taking any submitted form as an approval
parseRedirectApproval_Always(form) ==
    [approved |-> TRUE, clientId |-> form.client_id,
     redirectUri |-> form.redirect_uri]

\* parseRedirectApproval: approved only when the form's approve is "true"
parseRedirectApproval(form) ==
    [approved |-> form.approve = "true", clientId |-> form.client_id,
     redirectUri |-> form.redirect_uri]

\* POST /authorize
PostAuthorize ==
    /\ \E approve \in {"true", "false"}, query \in AuthorizeQueries,
          sessionToken \in SessionTokens \cup {""} :
          LET approval == parseRedirectApproval(
                              [approve |-> approve, client_id |-> query.clientId,
                               redirect_uri |-> query.redirectUri])
              request == [route |-> "POST /authorize", approve |-> approve,
                          clientId |-> query.clientId,
                          sessionToken |-> sessionToken]
              sessionData == getAuthenticatedSession(sessionToken)
              authCode == Draw("code")
          IN  IF ~approval.approved
              THEN Exchange([route |-> request.route, status |-> 403],
                            kv, nonce, hist)
              ELSE IF sessionToken = "" \/ sessionData.t # "object"
              THEN Exchange([route |-> request.route, status |-> 401],
                            kv, nonce, hist)
              ELSE /\ CodeLeft
                   /\ Exchange(request @@ [status |-> 302, code |-> authCode],
                               IssueCode(storeClientApproval(kv, sessionData.login,
                                                             approval.clientId),
                                         authCode, approval.clientId,
                                         approval.redirectUri, sessionToken),
                               After(nonce, "code"),
                               Bound(authCode, approval.clientId,
                                     approval.redirectUri, sessionToken))

\* what GitHub answers the exchange of the callback's code with: the account
\* that logged in, or "" when the exchange or the user lookup fails
GitHubOutcomes == Logins \cup {""}

\* GET /callback
Callback ==
    /\ \E state \in CallbackStates \cup {""}, login \in GitHubOutcomes :
          LET request == [route |-> "GET /callback"]
              stateData == KVGetJson("oauth_state:" \o state)
              sessionToken == Draw("session")
              authCode == Draw("code")
              stored == KVDelete(KVPut(kv, "session:" \o sessionToken,
                                       JSON_stringify(SessionData(login))),
                                 "oauth_state:" \o state)
          IN  IF state = "" \/ stateData.t # "object"
              THEN Exchange(request @@ [status |-> 400], kv, nonce, hist)
              ELSE IF login = ""
              THEN Exchange(request @@ [status |-> 500], kv, nonce, hist)
              ELSE IF clientIdAlreadyApproved(stored, login, stateData.clientId)
              THEN /\ SessionLeft /\ CodeLeft
                   /\ Exchange(request @@ [status |-> 302, code |-> authCode],
                               IssueCode(stored, authCode, stateData.clientId,
                                         stateData.redirectUri, sessionToken),
                               After(After(nonce, "session"), "code"),
                               Bound(authCode, stateData.clientId,
                                     stateData.redirectUri, sessionToken))
              ELSE /\ SessionLeft
                   /\ Exchange(request @@ [status |-> 200], stored,
                               After(nonce, "session"), hist)

\* the requests in flight once the i-th of them keeps local, or has
\* responded when local is None; i = 0 is a request that arrives
Resumed(i, local) ==
    IF i = 0
    THEN IF local.t = "none" THEN flight ELSE Append(flight, local)
    ELSE IF local.t = "none"
    THEN SubSeq(flight, 1, i - 1) \o SubSeq(flight, i + 1, Len(flight))
    ELSE [flight EXCEPT ![i] = local]

\* a step of a request between two awaits
Step(i, local, response, store, history) ==
    /\ flight' = Resumed(i, local)
    /\ reply' = IF "route" \in DOMAIN response
                THEN [t |-> "reply"] @@ response
                ELSE None
    /\ kv' = store
    /\ hist' = history
    /\ UNCHANGED <<nonce, agent>>
    /\ UNCHANGED toolVars

\* the error responses of POST /token
TokenError(request, error) ==
    [route |-> request.route, late |-> request.late,
     foundCode |-> request.foundCode, status |-> 400,
     error |-> error, access_token |-> ""]

\* the forms posted to /token: every code with every client_id and
\* redirect_uri, one form of another grant type and one without a code
TokenForms ==
    {[grantType |-> "authorization_code", code |-> code,
      redirectUri |-> redirectUri, clientId |-> clientId] :
        code \in AuthCodes, redirectUri \in RedirectUris, clientId \in ClientIds}
    \cup {[grantType |-> grantType, code |-> code,
           redirectUri |-> "https://app1.example/cb", clientId |-> "app1"] :
             grantType \in {"refresh_token"}, code \in {""}}
    \cup {[grantType |-> "authorization_code", code |-> "",
           redirectUri |-> "https://app1.example/cb", clientId |-> "app1"]}

\* the request arrives after the logout of the session the code was issued
\* under has completed
Late(code) ==
    /\ code \in DOMAIN hist.bound
    /\ hist.bound[code].sessionToken \in hist.loggedOut

\* POST /token up to its read of the session: the form is checked, and
\* authcode:{code} is read and compared with the form
TokenReadsCode ==
    \E slot \in {0}, form \in TokenForms :
       LET request == [route |-> "POST /token", late |-> Late(form.code),
                       foundCode |-> ("authcode:" \o form.code) \in DOMAIN kv]
                      @@ form
           grantType == form.grantType
           code == form.code
           redirectUri == form.redirectUri
           clientId == form.clientId
           authData == KVGetJson("authcode:" \o code)
       IN  /\ Len(flight) < MaxInFlight
           /\ IF grantType # "authorization_code"
              THEN Step(slot, None, TokenError(request, "unsupported_grant_type"),
                        kv, hist)
              ELSE IF code = ""
              THEN Step(slot, None, TokenError(request, "invalid_request"),
                        kv, hist)
              ELSE IF authData.t # "object"
              THEN Step(slot, None, TokenError(request, "invalid_grant"),
                        kv, hist)
              ELSE IF clientId # authData.clientId
                      \/ redirectUri # authData.redirectUri
              THEN Step(slot, None, TokenError(request, "invalid_grant"),
                        kv, hist)
              ELSE Step(slot,
                        [t |-> "token", await |-> "session", request |-> request,
                         sessionToken |-> authData.sessionToken],
                        None, kv, hist)

\* the request in flight once it has read its session: what it awaits next,
\* and whether session:{sessionToken} existed when it was read
SessionRead(local) ==
    [local EXCEPT
       !.await = "delete",
       !.request = @ @@ [foundSession |->
                           ("session:" \o local.sessionToken) \in DOMAIN kv]]

\* POST /token going on to the delete whatever it read as the session
TokenReadsSession_Unchecked ==
    \E slot \in DOMAIN flight :
       /\ flight[slot].t = "token" /\ flight[slot].await = "session"
       /\ Step(slot, SessionRead(flight[slot]), None, kv, hist)

\* POST /token resumes with the session it read
TokenReadsSession ==
    \E slot \in DOMAIN flight :
       /\ flight[slot].t = "token" /\ flight[slot].await = "session"
       /\ IF KVGetJson("session:" \o flight[slot].sessionToken).t # "object"
          THEN Step(slot, None,
                    TokenError(flight[slot].request, "invalid_grant"), kv, hist)
          ELSE Step(slot, SessionRead(flight[slot]), None, kv, hist)

\* the number of access tokens the code has yielded
Granted(code) ==
    IF code \in DOMAIN hist.granted THEN hist.granted[code] ELSE 0

\* POST /token deletes authcode:{code} and responds with the session token
\* as the access token
TokenDeletesCode ==
    \E slot \in DOMAIN flight :
       /\ flight[slot].t = "token" /\ flight[slot].await = "delete"
       /\ LET request == flight[slot].request
          IN  Step(slot, None,
                   request @@ [status |-> 200, error |-> "",
                               access_token |-> flight[slot].sessionToken],
                   KVDelete(kv, "authcode:" \o request.code),
                   [hist EXCEPT !.granted =
                       KVPut(@, request.code, Granted(request.code) + 1)])

\* GET /logout clearing the cookie only
Logout_CookieOnly ==
    \E sessionToken \in SessionTokens \cup {""} :
       Exchange([route |-> "GET /logout", status |-> 200], kv, nonce,
                IF ("session:" \o sessionToken) \in DOMAIN kv
                THEN [hist EXCEPT !.loggedOut = @ \cup {sessionToken}]
                ELSE hist)

\* GET /logout
Logout ==
    \E sessionToken \in SessionTokens \cup {""} :
       Exchange([route |-> "GET /logout", status |-> 200],
                IF sessionToken # "" THEN KVDelete(kv, "session:" \o sessionToken)
                ELSE kv,
                nonce,
                IF ("session:" \o sessionToken) \in DOMAIN kv
                THEN [hist EXCEPT !.loggedOut = @ \cup {sessionToken}]
                ELSE hist)

\* what the body of POST /api/save-key holds as apiKey: a key, an empty
\* string, or nothing
SubmittedKeys == {Str(k) : k \in ApiKeys} \cup {Str(""), Undefined}

\* POST /api/save-key up to the test request: the session and the body are
\* checked and client.getWorkouts is awaited; one such request at a time
\* is followed through its await
SaveKeyBegins ==
    \E slot \in {0}, sessionToken \in SessionTokens \cup {""},
       apiKey \in SubmittedKeys :
       LET session == getAuthenticatedSession(sessionToken)
           request == [route |-> "POST /api/save-key", apiKey |-> apiKey,
                       sessionToken |-> sessionToken, session |-> session]
       IN  /\ \A other \in DOMAIN flight : flight[other].t # "save-key"
           /\ IF session.t # "object"
              THEN Step(slot, None, [route |-> request.route, status |-> 401],
                        kv, hist)
              ELSE IF apiKey.t # "string" \/ apiKey.v = ""
              THEN Step(slot, None, [route |-> request.route, status |-> 400],
                        kv, hist)
              ELSE Step(slot,
                        [t |-> "save-key", request |-> request,
                         login |-> session.login],
                        None, kv, hist)

\* setUserApiKey
setUserApiKey(store, username, apiKey) ==
    KVPut(store, "hevy_key:" \o username, encryptApiKey(apiKey))

\* the outcomes of the test request of POST /api/save-key
TestOutcomes ==
    {Reject, Response(200, "OK", TRUE, TRUE, Obj([workouts |-> Arr(<<>>)])),
     Response(200, "OK", TRUE, FALSE, Undefined),
     Response(401, "Unauthorized", TRUE, TRUE, Obj([error |-> Str("Invalid API key")]))}

\* POST /api/save-key storing the key however the test request settled
SaveKeySettles_Unvalidated ==
    \E slot \in DOMAIN flight, o \in TestOutcomes :
       /\ flight[slot].t = "save-key"
       /\ LET request == flight[slot].request @@ [test |-> o]
          IN  Step(slot, None, request @@ [status |-> 200],
                   setUserApiKey(kv, flight[slot].login, request.apiKey.v),
                   hist)

\* POST /api/save-key once the test request has settled: the key is stored,
\* or the catch block answers 400
SaveKeySettles ==
    \E slot \in DOMAIN flight, o \in TestOutcomes :
       /\ flight[slot].t = "save-key"
       /\ LET request == flight[slot].request @@ [test |-> o]
          IN  IF RequestCompletion(o).threw
              THEN Step(slot, None, [route |-> request.route, status |-> 400],
                        kv, hist)
              ELSE Step(slot, None, request @@ [status |-> 200],
                        setUserApiKey(kv, flight[slot].login, request.apiKey.v),
                        hist)

\* DELETE /api/delete-key
DeleteKey ==
    \E sessionToken \in SessionTokens \cup {""} :
       LET request == [route |-> "DELETE /api/delete-key"]
           session == getAuthenticatedSession(sessionToken)
       IN  IF session.t # "object"
           THEN Exchange(request @@ [status |-> 401], kv, nonce, hist)
           ELSE Exchange(request @@ [status |-> 200],
                         KVDelete(kv, "hevy_key:" \o session.login), nonce, hist)

\* the keys put with an expirationTtl of ten minutes: the authorization
\* codes and the pending states; sessions live for thirty days and
\* approvals for a year
Expiring ==
    {key \in DOMAIN kv : SubSeq(key, 1, 9) \in {"authcode:", "oauth_sta"}}

\* the namespace drops a key whose expirationTtl has passed
Expires ==
    /\ \E key \in Expiring : kv' = KVDelete(kv, key)
    /\ reply' = None
    /\ UNCHANGED <<nonce, flight, agent, hist>>
    /\ UNCHANGED toolVars

\* logins, approvals and the issue of authorization codes
NextAuth ==
    \/ GetAuthorize
    \/ PostAuthorize
    \/ Callback
    \/ Logout
    \/ Expires

SpecAuth == Init /\ [][NextAuth]_vars

\* the exchange of authorization codes and the use of access tokens
NextToken ==
    \/ GetAuthorize
    \/ PostAuthorize
    \/ Callback
    \/ TokenReadsCode
    \/ TokenReadsSession
    \/ TokenDeletesCode
    \/ Logout
    \/ McpRequest

SpecToken == Init /\ [][NextToken]_vars

\* sessions, the key management of /api and the agent instance
NextKeys ==
    \/ GetAuthorize
    \/ Callback
    \/ Logout
    \/ SaveKeyBegins
    \/ SaveKeySettles
    \/ DeleteKey
    \/ McpRequest
    \/ AgentFetch
    \/ AgentEnds

SpecKeys == Init /\ [][NextKeys]_vars

----------------------------------------------------------------------------
(* Properties of the OAuth front end *)

\* the response of the last step is that of the route, with the status
Replied(route, status) ==
    reply.t = "reply" /\ reply.route = route /\ reply.status = status

\* the sessions that exist, by token
LiveSessions ==
    {token \in Drawn("session") : ("session:" \o token) \in DOMAIN kv}

C25_CodeYieldsTokenOnce ==
    \A code \in DOMAIN hist.granted : hist.granted[code] <= 1

\* POST /token answered with an access token
TokenGranted ==
    reply.t = "reply" /\ reply.route = "POST /token" /\ reply.access_token # ""

ApprovalStored(store, login, client) ==
    ("approval:" \o login \o ":" \o client) \in DOMAIN store

\* the login of the session the code is bound to, read in the namespace
LoginOf(store, token) == store["session:" \o token].json.login

\* the step is a POST /authorize that was answered with the status
PostAuthorizeAnswered(status) ==
    /\ reply'.t = "reply" /\ reply'.route = "POST /authorize"
    /\ reply'.status = status

\* C27: an authorization code is created for a client only when the
\* approval of that client by the user of the code's session is already
\* stored, or is recorded by the same POST /authorize, which then carries
\* approve=true and the cookie of an existing session; a POST /authorize
\* that is denied or unauthenticated creates no code and stores no approval.
C27_CodeOnlyWithApproval ==
    [][/\ \A code \in DOMAIN hist'.bound \ DOMAIN hist.bound :
             LET to == hist'.bound[code]
             IN  /\ ("authcode:" \o code) \in DOMAIN kv'
                 /\ ("session:" \o to.sessionToken) \in DOMAIN kv'
                 /\ \/ ApprovalStored(
                          kv, LoginOf(kv', to.sessionToken), to.clientId)
                    \/ /\ PostAuthorizeAnswered(302)
                       /\ reply'.approve = "true"
                       /\ reply'.clientId = to.clientId
                       /\ reply'.sessionToken = to.sessionToken
                       /\ ("session:" \o reply'.sessionToken) \in DOMAIN kv
                       /\ ApprovalStored(
                             kv', LoginOf(kv, to.sessionToken), to.clientId)
       /\ (reply'.t = "reply" /\ reply'.route = "POST /authorize") =>
             \/ PostAuthorizeAnswered(302) /\ reply'.approve = "true"
             \/ /\ PostAuthorizeAnswered(401) \/ PostAuthorizeAnswered(403)
                /\ kv' = kv
                /\ hist'.bound = hist.bound
      ]_vars

\* GET /authorize issued a code to alice, whose approval of the client was
\* stored before, while bob is logged in and has approved nothing
C27_Witness ==
    /\ Replied("GET /authorize", 302) /\ "code" \in DOMAIN reply
    /\ LoginOf(kv, hist.bound[reply.code].sessionToken) = "alice"
    /\ \E other \in LiveSessions : LoginOf(kv, other) = "bob"
    /\ \A client \in ClientIds : ~ApprovalStored(kv, "bob", client)

\* POST /authorize with approve=true and a session recorded the approval
\* and issued the code
C27_WitnessApproved ==
    /\ Replied("POST /authorize", 302)
    /\ ("authcode:" \o reply.code) \in DOMAIN kv

\* GET /callback issued a code to a user who had approved the client in an
\* earlier session
C27_WitnessCallback ==
    Replied("GET /callback", 302) /\ "code" \in DOMAIN reply

\* C28: once GET /logout for a session has completed, a request presenting
\* that session's token is answered 401 by bearerAuth without next being
\* called, and a POST /token presenting a code issued under that session is
\* answered invalid_grant without a token.
C28_LoggedOutSessionRejected ==
    /\ (reply.t = "reply" /\ reply.route = "mcp" /\ reply.late) =>
          reply.status = 401 /\ ~reply.next
    /\ (reply.t = "reply" /\ reply.route = "POST /token" /\ reply.late) =>
          /\ reply.status = 400
          /\ reply.error = "invalid_grant"
          /\ reply.access_token = ""

\* a code that is still stored was refused after the logout of its session
C28_Witness ==
    /\ Replied("POST /token", 400)
    /\ reply.late /\ reply.foundCode /\ reply.error = "invalid_grant"

\* the token of a session was refused after its logout while another
\* session exists
C28_WitnessBearer ==
    /\ Replied("mcp", 401) /\ reply.late
    /\ LiveSessions # {}

\* the key stored for the login, "" when none is stored
StoredKey(store, login) ==
    IF ("hevy_key:" \o login) \in DOMAIN store
    THEN store["hevy_key:" \o login].aesgcm
    ELSE ""

\* C29: every upstream request of an agent instance carries as api-key the
\* key stored under hevy_key:{login} of the login of its session; with no
\* stored key no upstream request is made.
C29_RequestsCarryStoredKey ==
    reply.t = "fetch" =>
        /\ StoredKey(kv, reply.login) # ""
        /\ reply.api_key = StoredKey(kv, reply.login)

\* an instance starts only with the props of the session whose token the
\* request presented and with the key stored under that session's login at
\* that moment
C29_KeyOfOwnLoginAtInit ==
    [][(agent' # agent /\ agent'.t = "agent") =>
          /\ reply'.t = "reply" /\ reply'.route = "mcp" /\ reply'.next
          /\ agent'.props = reply'.props
          /\ StoredKey(kv, reply'.props.login) # ""
          /\ agent'.apiKey = StoredKey(kv, reply'.props.login)
      ]_vars

\* bob's instance started with bob's key while alice has stored another key
C29_WitnessAtInit ==
    /\ agent.t = "agent" /\ agent.props.login = "bob"
    /\ reply.t = "fetch" /\ reply.api_key = "key-b"
    /\ StoredKey(kv, "bob") = "key-b" /\ StoredKey(kv, "alice") = "key-a"

\* the step is a POST /api/save-key that was answered with the status
SaveKeyAnswered(status) ==
    /\ reply'.t = "reply" /\ reply'.route = "POST /api/save-key"
    /\ reply'.status = status

\* the test request was answered 2xx with a body that could be read
TestSucceeded(o) ==
    /\ o.kind = "response"
    /\ o.status >= 200 /\ o.status <= 299
    /\ o.json => o.parses

\* C30: POST /api/save-key writes hevy_key:{login} only when the request
\* carried the cookie of an existing session and the test request with the
\* submitted key succeeded, and then it stores the submitted key under the
\* login of that session; otherwise it answers 401 or 400 and leaves the
\* stored keys unchanged.  No other request stores a key.
C30_KeySavedOnlyWhenValidated ==
    [][/\ (reply'.t = "reply" /\ reply'.route = "POST /api/save-key") =>
             \/ /\ SaveKeyAnswered(200)
                /\ reply'.session.t = "object"
                /\ reply'.sessionToken \in Drawn("session")
                /\ reply'.sessionToken \in LiveSessions =>
                      reply'.session = kv["session:" \o reply'.sessionToken].json
                /\ reply'.apiKey.t = "string" /\ reply'.apiKey.v # ""
                /\ TestSucceeded(reply'.test)
                /\ StoredKey(kv', reply'.session.login) = reply'.apiKey.v
                /\ \A key \in (DOMAIN kv \cup DOMAIN kv')
                             \ {"hevy_key:" \o reply'.session.login} :
                      key \in DOMAIN kv /\ key \in DOMAIN kv' /\ kv'[key] = kv[key]
             \/ /\ SaveKeyAnswered(401) \/ SaveKeyAnswered(400)
                /\ kv' = kv
       /\ \A login \in Logins :
             StoredKey(kv', login) \notin {"", StoredKey(kv, login)} =>
                SaveKeyAnswered(200) /\ reply'.session.login = login
      ]_vars

\* bob's key was stored after a successful test request, and alice's key
\* stayed as it was
C30_Witness ==
    /\ Replied("POST /api/save-key", 200)
    /\ reply.session.login = "bob" /\ reply.apiKey.v = "key-b"
    /\ StoredKey(kv, "bob") = "key-b" /\ StoredKey(kv, "alice") = "key-a"

\* a submitted key was refused because the test request failed, and the key
\* stored before is still there
C30_WitnessRefused ==
    /\ Replied("POST /api/save-key", 400)
    /\ \E login \in Logins : StoredKey(kv, login) # ""

====
